---- MODULE Spec2Model ----
(***************************************************************************)
(* A model of sensors-to-mqtt: the acquisition loops of service.rs and     *)
(* main.rs (daemon and interactive), and the scalar filter of              *)
(* filters/kalman_1d.rs.                                                   *)
(***************************************************************************)
EXTENDS Integers, Sequences, FiniteSets, TLC

VARIABLES
    \* ---- SensorService / run_daemon / run_ui_loop ----
    mode,             \* cli.mode: "daemon" or "interactive"
    pc,               \* position of the acquisition loop
    should_stop,      \* SensorService.should_stop (AtomicBool)
    connected,        \* what publisher.is_connected() reports
    enabled,          \* device.is_enabled(), per device
    update_interval,  \* config.service.update_interval_ms
    reconnect_delay,  \* config.service.reconnect_delay_ms
    since_attempt,    \* last_reconnect_attempt.elapsed()
    elapsed,          \* loop_start.elapsed()
    pos,              \* read_sensors: index of the next device
    results,          \* read_sensors: the names of the samples collected
    pub_i,            \* index of the next sample handed to publish
    \* ---- App (interactive mode) ----
    should_quit,      \* App.should_quit
    is_measuring,     \* App.is_measuring
    selected_sensor,  \* App.selected_sensor (0-based)
    sensor_names,     \* App.sensor_names: get_name() of each device, in order
    sensor_enabled,   \* App.sensor_enabled, keyed by name
    \* ---- history of the current tick (observation only) ----
    readTried,        \* devices whose read() was invoked this tick, in order
    readFailed,       \* devices whose read() returned Err this tick
    pubLog,           \* <<device, ok>> per publish invocation this tick
    prevReadFailed,   \* some read() failed in the previous tick
    prevPubFailed,    \* some publish failed in the previous tick
    since_reconnect,  \* time since the last reconnect() invocation, -1: none
    attempt_gap,      \* time between the last two reconnect() invocations, -1: none
    reconnect_result, \* reconnect() in the current tick: "none", "ok" or "failed"
    \* ---- KalmanFilter1D ----
    filter,           \* the filter under test
    twin,             \* a filter constructed afresh at the last reset()
    output,           \* value returned by the last update(), per filter
    fhist,            \* observation of the calls made on the filter
    \* ---- AppConfig (startup of main) ----
    cfg_file,         \* the AppConfig parsed from the YAML file
    cli,              \* the overrides given on the command line
    config,           \* the AppConfig main holds: <<>> none, <<c>> the config c
    startup,          \* position of main: "loading", "loaded", "ready", "failed"
    \* ---- MqttPublisher ----
    sample,           \* the SensorData handed to publish: timestamp and data
    sent,             \* the <<topic suffix, payload>> handed to the MQTT handler
    \* ---- MPU6500 and its chip ----
    dev,              \* the MPU6500: settings, calibration, filters, enabled
    chip,             \* the chip behind the I2C handle: signal, registers written
    last_read,        \* the Result of the last read(): status and SensorData
    dhist,            \* observation of the calls made on the device
    \* ---- I2CBus::new ----
    bus_config,       \* I2CConfig.devices: the descriptors, in declared order
    bus_pos,          \* index of the next descriptor
    bus_devices,      \* the devices pushed so far
    bus_status,       \* "building", "ok" (Ok(bus)) or "err" (Err, no bus)
    bus_log           \* the descriptors MPU6500::new was invoked for, in order

svars == <<mode, pc, should_stop, connected, enabled, update_interval,
           reconnect_delay, since_attempt, elapsed, pos, results, pub_i,
           should_quit, is_measuring, selected_sensor, sensor_names, sensor_enabled,
           readTried, readFailed, pubLog, prevReadFailed, prevPubFailed,
           since_reconnect, attempt_gap,
                   reconnect_result>>

fvars == <<filter, twin, output, fhist>>

cvars == <<cfg_file, cli, config, startup>>

pvars == <<sample, sent>>

dvars == <<dev, chip, last_read, dhist>>

bvars == <<bus_config, bus_pos, bus_devices, bus_status, bus_log>>

vars == <<svars, fvars, cvars, pvars, dvars, bvars>>

\* what each part of the program leaves alone
OutsideService == <<fvars, cvars, pvars, dvars, bvars>>
OutsideFilter == <<svars, cvars, pvars, dvars, bvars>>
OutsideConfig == <<svars, fvars, pvars, dvars, bvars>>
OutsidePublisher == <<svars, fvars, cvars, dvars, bvars>>
OutsideDevice == <<svars, fvars, cvars, pvars, bvars>>
OutsideBus == <<svars, fvars, cvars, pvars, dvars>>

----------------------------------------------------------------------------
(* Bounds of the model *)

\* largest update_interval_ms explored (time units)
MaxInterval == 2
\* largest reconnect_delay_ms explored (time units)
MaxDelay == 2
\* longest duration of one blocking call (read, publish, reconnect)
MaxOpTime == 1

\* The buses of config.yaml in declaration order, each with its devices in
\* declaration order.
Buses == << <<"imu_a", "imu_b">>, <<"imu_c">> >>

\* The enabled flags the devices start with: a device is constructed enabled,
\* and only set_enabled, called from the interactive loop, changes the flag.
EnabledAtStart == {[d \in {"imu_a", "imu_b", "imu_c"} |-> TRUE]}

\* The names the device descriptors of config.yaml carry, per device in
\* declaration order: all distinct, or the device of the second bus named as
\* the first device of the first bus. The model identifies the devices
\* themselves by "imu_a", "imu_b", "imu_c".
ConfiguredNames ==
    {<<"imu_a", "imu_b", "imu_c">>, <<"imu_a", "imu_b", "imu_a">>}

Min(a, b) == IF a < b THEN a ELSE b

----------------------------------------------------------------------------
(* SensorService *)

RECURSIVE Flatten(_)
Flatten(bs) == IF bs = <<>> THEN <<>> ELSE Head(bs) \o Flatten(Tail(bs))

Reverse(s) == [i \in 1..Len(s) |-> s[Len(s) + 1 - i]]

DeviceOrder_reversed == Reverse(Flatten(Buses))

\* for bus in &mut self.sensor_buses { for device in &mut bus.devices { .. } }
DeviceOrder == Flatten(Buses)

Devices == {DeviceOrder[i] : i \in 1..Len(DeviceOrder)}

LoopCondition_ignoresStop == TRUE

\* while !self.should_stop.load(Ordering::SeqCst)
LoopCondition == ~should_stop

\* Instant arithmetic: only comparisons against the configured durations are
\* made, so an elapsed time saturates just above the duration it is compared to.
Advance(t, dt, cap) == Min(t + dt, cap)

AttemptCap == reconnect_delay + 1

AdvanceGhost(t, dt) == IF t < 0 THEN t ELSE Advance(t, dt, AttemptCap)

\* All clocks of run_daemon move together.
TimePasses(dt) ==
    /\ elapsed' = Advance(elapsed, dt, update_interval)
    /\ since_attempt' = Advance(since_attempt, dt, AttemptCap)
    /\ since_reconnect' = AdvanceGhost(since_reconnect, dt)

OpTimes == IF mode = "daemon" THEN 0..MaxOpTime ELSE {0}

\* !self.is_publisher_connected() && last_reconnect_attempt.elapsed() > reconnect_delay
ReconnectDue == ~connected /\ since_attempt > reconnect_delay

\* last_reconnect_attempt = Instant::now() only in the Err branch
SinceAttemptAfter(ok, dt) ==
    IF ok THEN Advance(since_attempt, dt, AttemptCap) ELSE 0

StartTick ==
    /\ pos' = 1
    /\ results' = <<>>
    /\ pub_i' = 1
    /\ readTried' = <<>>
    /\ readFailed' = {}
    /\ pubLog' = <<>>
    /\ prevReadFailed' = (readFailed # {})
    /\ prevPubFailed' = (\E i \in 1..Len(pubLog) : ~pubLog[i][2])

PcAfterReconnect_skipsOnFailure(ok) == IF ok THEN "read" ELSE "sleep"

\* if let Err(e) = self.reconnect_publisher() { log } else { log }: the loop
\* body goes on to read_sensors whatever reconnect returned
PcAfterReconnect(ok) == "read"

\* run_daemon, loop head: the stop check, loop_start, the reconnect policy.
LoopHead ==
    /\ mode = "daemon"
    /\ pc = "head"
    /\ IF ~LoopCondition
       THEN /\ pc' = "done"
            /\ UNCHANGED <<connected, since_attempt, elapsed, pos, results, pub_i,
                           readTried, readFailed, pubLog, prevReadFailed, prevPubFailed,
                           since_reconnect, attempt_gap,
                   reconnect_result>>
       ELSE /\ StartTick
            /\ IF ReconnectDue
               THEN \E ok \in BOOLEAN, dt \in OpTimes :
                      /\ connected' = ok
                      /\ since_attempt' = SinceAttemptAfter(ok, dt)
                      /\ elapsed' = Advance(0, dt, update_interval)
                      /\ attempt_gap' = since_reconnect
                      /\ since_reconnect' = Advance(0, dt, AttemptCap)
                      /\ reconnect_result' = IF ok THEN "ok" ELSE "failed"
                      /\ pc' = PcAfterReconnect(ok)
               ELSE /\ elapsed' = 0
                    /\ reconnect_result' = "none"
                    /\ pc' = "read"
                    /\ UNCHANGED <<connected, since_attempt, since_reconnect,
                                   attempt_gap>>
    /\ UNCHANGED <<mode, should_stop, enabled, update_interval, reconnect_delay,
                   should_quit, is_measuring, selected_sensor, sensor_names, sensor_enabled>>

\* match device.read() { Ok(data) => results.push((name, data)), Err(e) => log }
ResultsAfterRead(res, d, ok) == IF ok THEN Append(res, d) ELSE res

NextPosAfterRead_abortsOnError(p, ok) == IF ok THEN p + 1 ELSE Len(DeviceOrder) + 1

\* the for loops of read_sensors go on to the next device whatever read() returned
NextPosAfterRead(p, ok) == p + 1

\* read_sensors, one iteration of the device loop; past the last device the
\* collected samples go to the publish loop.
ReadSensors ==
    /\ pc = "read"
    /\ IF pos <= Len(DeviceOrder)
       THEN LET d == DeviceOrder[pos] IN
            IF ~enabled[d]
            THEN /\ pos' = pos + 1
                 /\ UNCHANGED <<pc, results, readTried, readFailed, elapsed,
                                since_attempt, since_reconnect>>
            ELSE \E ok \in BOOLEAN, dt \in OpTimes :
                   /\ results' = ResultsAfterRead(results, d, ok)
                   /\ pos' = NextPosAfterRead(pos, ok)
                   /\ readTried' = Append(readTried, d)
                   /\ readFailed' = IF ok THEN readFailed ELSE readFailed \cup {d}
                   /\ TimePasses(dt)
                   /\ pc' = pc
       ELSE /\ pc' = "publish"
            /\ UNCHANGED <<pos, results, readTried, readFailed, elapsed,
                           since_attempt, since_reconnect>>
    /\ UNCHANGED <<mode, should_stop, connected, enabled, update_interval,
                   reconnect_delay, pub_i, should_quit, is_measuring,
                   selected_sensor, sensor_names, sensor_enabled, pubLog, prevReadFailed,
                   prevPubFailed, attempt_gap,
                   reconnect_result>>

NextPubAfterPublish_abortsOnError(i, ok) == IF ok THEN i + 1 ELSE Len(results) + 1

\* for (name, data) in sensor_data { if let Err(e) = self.publish(..) { log } }
NextPubAfterPublish(i, ok) == i + 1

\* the publish loop of run_daemon and of run_ui_loop, one iteration
Publish ==
    /\ pc = "publish"
    /\ IF pub_i <= Len(results)
       THEN \E ok \in BOOLEAN, dt \in OpTimes :
              /\ pubLog' = Append(pubLog, <<results[pub_i], ok>>)
              /\ pub_i' = NextPubAfterPublish(pub_i, ok)
              /\ TimePasses(dt)
              /\ pc' = pc
       ELSE /\ pc' = "sleep"
            /\ UNCHANGED <<pub_i, pubLog, elapsed, since_attempt, since_reconnect>>
    /\ UNCHANGED <<mode, should_stop, connected, enabled, update_interval,
                   reconnect_delay, pos, results, should_quit, is_measuring,
                   selected_sensor, sensor_names, sensor_enabled, readTried, readFailed,
                   prevReadFailed, prevPubFailed, attempt_gap,
                   reconnect_result>>

\* if elapsed < update_interval { thread::sleep(update_interval - elapsed) }
SleepTime == IF elapsed < update_interval THEN update_interval - elapsed ELSE 0

\* run_daemon, end of the tick
Sleep ==
    /\ mode = "daemon"
    /\ pc = "sleep"
    /\ TimePasses(SleepTime)
    /\ pc' = "head"
    /\ UNCHANGED <<mode, should_stop, connected, enabled, update_interval,
                   reconnect_delay, pos, results, pub_i, should_quit,
                   is_measuring, selected_sensor, sensor_names, sensor_enabled, readTried,
                   readFailed, pubLog, prevReadFailed, prevPubFailed, attempt_gap,
                   reconnect_result>>

\* ctrlc handler: stop_signal.store(true, Ordering::SeqCst)
SignalHandler ==
    /\ ~should_stop
    /\ pc \notin {"done", "ui_error"}
    /\ should_stop' = TRUE
    /\ UNCHANGED <<mode, pc, connected, enabled, update_interval, reconnect_delay,
                   since_attempt, elapsed, pos, results, pub_i, should_quit,
                   is_measuring, selected_sensor, sensor_names, sensor_enabled, readTried,
                   readFailed, pubLog, prevReadFailed, prevPubFailed, since_reconnect,
                   attempt_gap,
                   reconnect_result>>

\* The broker connection is lost: is_connected() turns false.
SinkDisconnects ==
    /\ connected
    /\ pc \notin {"done", "ui_error"}
    /\ connected' = FALSE
    /\ UNCHANGED <<mode, pc, should_stop, enabled, update_interval,
                   reconnect_delay, since_attempt, elapsed, pos, results, pub_i,
                   should_quit, is_measuring, selected_sensor, sensor_names, sensor_enabled,
                   readTried, readFailed, pubLog, prevReadFailed, prevPubFailed,
                   since_reconnect, attempt_gap,
                   reconnect_result>>

----------------------------------------------------------------------------
(* Interactive mode *)

InputActions == {"Quit", "ToggleMeasurement", "Reload", "NextSensor",
                 "PrevSensor", "ToggleSensor", "ClearCharts", "ToggleHelp",
                 "Calibrate", "None"}

sensor_count == Len(DeviceOrder)

\* App::get_selected_sensor_name
SelectedName == sensor_names[selected_sensor + 1]

\* SensorService::get_sensor_mut: the first device, in declared order, whose
\* get_name() equals the name
GetSensorMut(name) ==
    LET i == CHOOSE j \in 1..Len(DeviceOrder) :
                /\ sensor_names[j] = name
                /\ \A k \in 1..(j - 1) : sensor_names[k] # name
    IN  DeviceOrder[i]

\* App::next_sensor
NextSensor(s) == IF sensor_count > 0 THEN (s + 1) % sensor_count ELSE s

\* App::prev_sensor
PrevSensor(s) ==
    IF sensor_count > 0
    THEN (IF s = 0 THEN sensor_count - 1 ELSE s - 1)
    ELSE s

\* App::toggle_selected_sensor
ToggleSelected(se) == [se EXCEPT ![SelectedName] = ~se[SelectedName]]

\* run_ui_loop, one iteration up to the read: draw, handle the input action,
\* the should_quit check, then the is_measuring check.
UiHead ==
    /\ mode = "interactive"
    /\ pc = "ui_head"
    /\ \E a \in InputActions :
         /\ should_quit' = (should_quit \/ a = "Quit")
         /\ is_measuring' = IF a = "ToggleMeasurement" THEN ~is_measuring
                            ELSE is_measuring
         /\ selected_sensor' = CASE a = "NextSensor" -> NextSensor(selected_sensor)
                                 [] a = "PrevSensor" -> PrevSensor(selected_sensor)
                                 [] OTHER -> selected_sensor
         /\ sensor_enabled' = IF a = "ToggleSensor" THEN ToggleSelected(sensor_enabled)
                              ELSE sensor_enabled
         /\ enabled' = IF a = "ToggleSensor"
                       THEN [enabled EXCEPT ![GetSensorMut(SelectedName)] =
                                               sensor_enabled'[SelectedName]]
                       ELSE enabled
         /\ IF should_quit'
            THEN /\ should_stop' = TRUE       \* service.request_stop(); break
                 /\ pc' = "done"
                 /\ UNCHANGED <<pos, results, pub_i, readTried, readFailed, pubLog,
                                prevReadFailed, prevPubFailed>>
            ELSE /\ should_stop' = should_stop
                 /\ IF is_measuring'
                    THEN pc' = "read" /\ StartTick
                    ELSE /\ pc' = "ui_sleep"
                         /\ UNCHANGED <<pos, results, pub_i, readTried, readFailed,
                                        pubLog, prevReadFailed, prevPubFailed>>
    /\ UNCHANGED <<mode, connected, update_interval, reconnect_delay,
                   since_attempt, elapsed, since_reconnect, attempt_gap,
                   reconnect_result, sensor_names>>

\* terminal.draw(..)? and handle_input(..)? return the I/O error to the caller
UiIoError ==
    /\ mode = "interactive"
    /\ pc = "ui_head"
    /\ pc' = "ui_error"
    /\ UNCHANGED <<mode, should_stop, connected, enabled, update_interval,
                   reconnect_delay, since_attempt, elapsed, pos, results, pub_i,
                   should_quit, is_measuring, selected_sensor, sensor_names, sensor_enabled,
                   readTried, readFailed, pubLog, prevReadFailed, prevPubFailed,
                   since_reconnect, attempt_gap,
                   reconnect_result>>

\* std::thread::sleep(update_interval) at the end of the iteration
UiSleep ==
    /\ mode = "interactive"
    /\ pc \in {"sleep", "ui_sleep"}
    /\ pc' = "ui_head"
    /\ UNCHANGED <<mode, should_stop, connected, enabled, update_interval,
                   reconnect_delay, since_attempt, elapsed, pos, results, pub_i,
                   should_quit, is_measuring, selected_sensor, sensor_names, sensor_enabled,
                   readTried, readFailed, pubLog, prevReadFailed, prevPubFailed,
                   since_reconnect, attempt_gap,
                   reconnect_result>>

----------------------------------------------------------------------------
(* Exact rational arithmetic for the f64 quantities of the filter: a number *)
(* is <<numerator, denominator>> in lowest terms with a positive denominator *)

RECURSIVE GCD(_, _)
GCD(a, b) == IF b = 0 THEN a ELSE GCD(b, a % b)

IAbs(n) == IF n < 0 THEN -n ELSE n

Norm(n, d) ==
    LET g == GCD(IAbs(n), IAbs(d))
        s == IF d < 0 THEN -1 ELSE 1
    IN  <<(s * n) \div g, (s * d) \div g>>

\* products are taken after cancelling common factors, to stay in range
RAdd(a, b) ==
    LET g == GCD(a[2], b[2])
    IN  Norm(a[1] * (b[2] \div g) + b[1] * (a[2] \div g), (a[2] \div g) * b[2])
RNeg(a) == <<-a[1], a[2]>>
RSub(a, b) == RAdd(a, RNeg(b))
RMul(a, b) ==
    LET g1 == GCD(IAbs(a[1]), b[2])
        g2 == GCD(IAbs(b[1]), a[2])
    IN  Norm((a[1] \div g1) * (b[1] \div g2), (a[2] \div g2) * (b[2] \div g1))
RInv(a) == IF a[1] < 0 THEN <<-a[2], -a[1]>> ELSE <<a[2], a[1]>>
RDiv(a, b) == RMul(a, RInv(b))
RLt(a, b) ==
    LET g == GCD(a[2], b[2])
    IN  a[1] * (b[2] \div g) < b[1] * (a[2] \div g)
RLe(a, b) == ~RLt(b, a)
RAbs(a) == <<IAbs(a[1]), a[2]>>

Zero == <<0, 1>>
One == <<1, 1>>

\* f64::clamp(min, max)
Clamp(v, lo, hi) == IF RLt(v, lo) THEN lo ELSE IF RLt(hi, v) THEN hi ELSE v

----------------------------------------------------------------------------
(* KalmanFilter1D *)

\* KalmanFilter1D::new(q, r).with_dead_zone(threshold)
New(q, r, threshold) ==
    [q |-> q, r |-> r, p |-> r, x |-> Zero, k |-> Zero, initialized |-> FALSE,
     dead_zone |-> threshold, last_output |-> Zero]

\* if delta > 1.0 { self.k * 1.5 } else { self.k * 0.8 }
Alpha(k, delta) == IF RLt(One, delta) THEN RMul(k, <<3, 2>>) ELSE RMul(k, <<4, 5>>)

FirstUpdate_keepsEstimate(f, m) ==
    [state |-> [f EXCEPT !.last_output = m, !.initialized = TRUE], out |-> m]

\* update, the branch taken while !self.initialized
FirstUpdate(f, m) ==
    [state |-> [f EXCEPT !.x = m, !.last_output = m, !.initialized = TRUE],
     out |-> m]

ClampCovariance_upperOnly(p, r) ==
    IF RLt(RMul(r, <<10, 1>>), p) THEN RMul(r, <<10, 1>>) ELSE p

\* self.p = self.p.clamp(self.r * 0.1, self.r * 10.0)
ClampCovariance(p, r) == Clamp(p, RMul(r, <<1, 10>>), RMul(r, <<10, 1>>))

DeadZoneGate_inverted(x, last_output, dead_zone) ==
    IF RLt(RAbs(RSub(x, last_output)), dead_zone) THEN x ELSE last_output

\* let change = (self.x - self.last_output).abs();
\* if change < self.dead_zone { self.last_output } else { self.x }
DeadZoneGate(x, last_output, dead_zone) ==
    IF RLt(RAbs(RSub(x, last_output)), dead_zone) THEN last_output ELSE x

NextUpdate_movesAway(f, m) ==
    LET p1 == RAdd(f.p, f.q)
        k1 == RDiv(p1, RAdd(p1, f.r))
        delta == RAbs(RSub(m, f.x))
        alpha == Alpha(k1, delta)
        x1 == RSub(f.x, RMul(alpha, RSub(m, f.x)))
        p2 == ClampCovariance(RMul(p1, RSub(One, k1)), f.r)
        out == DeadZoneGate(x1, f.last_output, f.dead_zone)
    IN  [state |-> [f EXCEPT !.p = p2, !.k = k1, !.x = x1, !.last_output = out],
         out |-> out]

NextUpdate_staleLastOutput(f, m) ==
    LET p1 == RAdd(f.p, f.q)
        k1 == RDiv(p1, RAdd(p1, f.r))
        delta == RAbs(RSub(m, f.x))
        alpha == Alpha(k1, delta)
        x1 == RAdd(f.x, RMul(alpha, RSub(m, f.x)))
        p2 == ClampCovariance(RMul(p1, RSub(One, k1)), f.r)
        out == DeadZoneGate(x1, f.last_output, f.dead_zone)
    IN  [state |-> [f EXCEPT !.p = p2, !.k = k1, !.x = x1], out |-> out]

\* update, the branch taken once initialized
NextUpdate(f, m) ==
    LET p1 == RAdd(f.p, f.q)
        k1 == RDiv(p1, RAdd(p1, f.r))
        delta == RAbs(RSub(m, f.x))
        alpha == Alpha(k1, delta)
        x1 == RAdd(f.x, RMul(alpha, RSub(m, f.x)))
        p2 == ClampCovariance(RMul(p1, RSub(One, k1)), f.r)
        out == DeadZoneGate(x1, f.last_output, f.dead_zone)
    IN  [state |-> [f EXCEPT !.p = p2, !.k = k1, !.x = x1, !.last_output = out],
         out |-> out]

\* KalmanFilter1D::update
Update(f, m) == IF ~f.initialized THEN FirstUpdate(f, m) ELSE NextUpdate(f, m)

Reset_keepsCovariance(f) ==
    [f EXCEPT !.x = Zero, !.k = Zero, !.initialized = FALSE, !.last_output = Zero]

\* KalmanFilter1D::reset
Reset(f) ==
    [f EXCEPT !.x = Zero, !.p = f.r, !.k = Zero, !.initialized = FALSE,
              !.last_output = Zero]

\* KalmanFilter1D::get_estimate
get_estimate(f) == f.x

\* longest run of update calls between two resets
MaxUpdates == 3
\* number of reset calls explored
MaxResets == 1
\* length of the run of updates at rest that may follow
MaxAtRest == 10

\* process noise q, measurement noise r, dead zone, and the measurements fed
QValues == {<<0, 1>>, <<1, 1>>, <<2, 1>>}
RValues == {<<1, 1>>, <<2, 1>>}
DeadZones == {<<0, 1>>, <<1, 2>>, <<2, 1>>}
Measurements == {<<0, 1>>, <<1, 1>>, <<6, 5>>, <<19, 10>>, <<4, 1>>}

NoCall == [op |-> "new", m |-> Zero, was_initialized |-> FALSE,
           prev_output |-> Zero, prev_x |-> Zero, first |-> Zero,
           held |-> TRUE, updates |-> 0, resets |-> 0]

\* one call filter.update(m), the same call made on the twin
CallUpdate(m) ==
    LET u == Update(filter, m)
        t == Update(twin, m)
    IN  /\ filter' = u.state
        /\ twin' = t.state
        /\ output' = [f |-> u.out, t |-> t.out]
        /\ fhist' = [fhist EXCEPT
              !.op = "update",
              !.m = m,
              !.was_initialized = filter.initialized,
              !.prev_output = filter.last_output,
              !.prev_x = filter.x,
              !.first = IF filter.initialized THEN fhist.first ELSE m,
              !.held = IF filter.initialized
                       THEN fhist.held /\ RLt(RAbs(RSub(m, filter.last_output)),
                                              filter.dead_zone)
                       ELSE TRUE,
              !.updates = fhist.updates + 1]

\* filter.update(m) for a measurement m
FilterUpdate ==
    /\ fhist.updates < MaxUpdates
    /\ \E m \in Measurements : CallUpdate(m)
    /\ UNCHANGED OutsideFilter

\* a long run of filter.update(m) with the signal at rest: every measurement
\* equals the current estimate. Explored for q = 0, where the covariance
\* keeps shrinking until the clamp holds it.
FilterUpdateAtRest ==
    /\ filter.initialized
    /\ filter.q = Zero
    /\ fhist.updates < MaxUpdates + MaxAtRest
    /\ CallUpdate(get_estimate(filter))
    /\ UNCHANGED OutsideFilter

\* filter.reset(); the twin is constructed afresh with the same parameters
FilterReset ==
    /\ fhist.resets < MaxResets
    /\ filter' = Reset(filter)
    /\ twin' = New(filter.q, filter.r, filter.dead_zone)
    /\ output' = output
    /\ fhist' = [fhist EXCEPT !.op = "reset", !.updates = 0,
                              !.resets = fhist.resets + 1]
    /\ UNCHANGED OutsideFilter

\* the filter is not exercised while the acquisition loops are explored
FilterIdle ==
    /\ filter = New(Zero, One, Zero)
    /\ twin = filter
    /\ output = [f |-> Zero, t |-> Zero]
    /\ fhist = NoCall

----------------------------------------------------------------------------
(* AppConfig *)

\* Default for ServiceConfig and MqttConfig, the fields validate looks at
DefaultConfig ==
    [update_interval_ms |-> 10, port |-> 1883, qos |-> 1,
     base_topic |-> "/GOLF86/SENSORS"]

Validate_qosUpperOnly(c) ==
    IF c.update_interval_ms = 0 THEN "service.update_interval_ms"
    ELSE IF c.port = 0 THEN "mqtt.port"
    ELSE IF c.qos > 2 THEN "mqtt.qos"
    ELSE IF c.base_topic = "" THEN "mqtt.base_topic"
    ELSE "ok"

\* AppConfig::validate: "ok", or the field of the first InvalidValue error
Validate(c) ==
    IF c.update_interval_ms = 0 THEN "service.update_interval_ms"
    ELSE IF c.port = 0 THEN "mqtt.port"
    ELSE IF c.qos < 0 \/ c.qos > 2 THEN "mqtt.qos"
    ELSE IF c.base_topic = "" THEN "mqtt.base_topic"
    ELSE "ok"

\* Option<T>: None is <<>>, Some(v) is <<v>>
None == <<>>
Some(v) == <<v>>

\* AppConfig::apply_cli_overrides, for the fields validate looks at
ApplyCliOverrides(c, o) ==
    [c EXCEPT
       !.update_interval_ms =
           IF o.update_interval_ms # None THEN o.update_interval_ms[1] ELSE @,
       !.port = IF o.mqtt_port # None THEN o.mqtt_port[1] ELSE @]

\* the configurations a YAML file can hold, and the command lines
FileIntervals == {0, 1, 10}
FilePorts == {0, 1883, 65535}
FileQos == {-1, 0, 1, 2, 3}
FileTopics == {"", "/GOLF86/SENSORS"}
CliIntervals == {None, Some(0), Some(5)}
CliPorts == {None, Some(0), Some(8883)}

\* main: AppConfig::from_file(&cli.config)?
FromFile ==
    /\ startup = "loading"
    /\ IF Validate(cfg_file) = "ok"
       THEN /\ config' = Some(cfg_file)
            /\ startup' = "loaded"
       ELSE /\ config' = None
            /\ startup' = "failed"
    /\ UNCHANGED <<cfg_file, cli>>
    /\ UNCHANGED OutsideConfig

\* main: config.apply_cli_overrides(&cli), after which the run mode starts
CliOverrides ==
    /\ startup = "loaded"
    /\ config' = Some(ApplyCliOverrides(config[1], cli))
    /\ startup' = "ready"
    /\ UNCHANGED <<cfg_file, cli>>
    /\ UNCHANGED OutsideConfig

\* the configuration is not loaded while other parts are explored
ConfigIdle ==
    /\ cfg_file = DefaultConfig
    /\ cli = [update_interval_ms |-> None, mqtt_port |-> None]
    /\ config = Some(DefaultConfig)
    /\ startup = "ready"

----------------------------------------------------------------------------
(* MqttPublisher *)

\* the keys of a sample, as the characters of the String
K_accel_x == <<"a", "c", "c", "e", "l", "_", "x">>
K_gyro_x == <<"g", "y", "r", "o", "_", "x">>
K_lean_angle == <<"l", "e", "a", "n", "_", "a", "n", "g", "l", "e">>
K_g_force_x == <<"g", "_", "f", "o", "r", "c", "e", "_", "x">>
K_roll_rate == <<"r", "o", "l", "l", "_", "r", "a", "t", "e">>
K_calibrated == <<"c", "a", "l", "i", "b", "r", "a", "t", "e", "d">>
K_timestamp == <<"t", "i", "m", "e", "s", "t", "a", "m", "p">>

P_angle == <<"a", "n", "g", "l", "e">>
P_g_force == <<"g", "_", "f", "o", "r", "c", "e">>
P_rate == <<"r", "a", "t", "e">>

\* str::contains
Contains(str, pat) ==
    \E i \in 1..(Len(str) - Len(pat) + 1) : SubSeq(str, i, i + Len(pat) - 1) = pat

IsDerivedKey_withoutRate(key) ==
    \/ Contains(key, P_angle)
    \/ Contains(key, P_g_force)

\* key.contains("angle") || key.contains("g_force") || key.contains("rate")
IsDerivedKey(key) ==
    \/ Contains(key, P_angle)
    \/ Contains(key, P_g_force)
    \/ Contains(key, P_rate)

\* serde_json::json!(value) of an f64, and of timestamp.to_rfc3339()
JsonNumber(v) == <<"number", v>>
JsonRfc3339(t) == <<"string", "rfc3339", t>>

\* serde_json::Map::insert
MapInsert(map, key, value) ==
    [k \in DOMAIN map \cup {key} |-> IF k = key THEN value ELSE map[k]]

\* for (key, value) in &data.data { if ... { derived.insert(key, json!(value)) } }
RECURSIVE InsertDerived(_, _, _)
InsertDerived(keys, data, derived) ==
    IF keys = {} THEN derived
    ELSE LET key == CHOOSE k \in keys : TRUE
             next == IF IsDerivedKey(key)
                     THEN MapInsert(derived, key, JsonNumber(data[key]))
                     ELSE derived
         IN  InsertDerived(keys \ {key}, data, next)

\* the payload publish_derived builds
DerivedPayload(data) ==
    InsertDerived(DOMAIN data.data, data.data,
                  MapInsert(<<>>, K_timestamp, JsonRfc3339(data.timestamp)))

\* the payload publish_filtered builds
RECURSIVE InsertAll(_, _, _)
InsertAll(keys, data, payload) ==
    IF keys = {} THEN payload
    ELSE LET key == CHOOSE k \in keys : TRUE
         IN  InsertAll(keys \ {key}, data,
                       MapInsert(payload, key, JsonNumber(data[key])))

FilteredPayload(data) ==
    InsertAll(DOMAIN data.data, data.data,
              MapInsert(<<>>, K_timestamp, JsonRfc3339(data.timestamp)))

\* the payload publish_info builds: the sensor name and the timestamp
InfoPayload(data) == MapInsert(<<>>, K_timestamp, JsonRfc3339(data.timestamp))

\* MqttPublisher::publish: INFO, FILTERED, DERIVED, stopping at the first
\* error of the MQTT handler (fail = 0: none, else the failing publish)
PublishAll(data, fail) ==
    LET all == << <<"INFO", InfoPayload(data)>>,
                  <<"FILTERED", FilteredPayload(data)>>,
                  <<"DERIVED", DerivedPayload(data)>> >>
    IN  IF fail = 0 THEN all ELSE SubSeq(all, 1, fail)

\* the keys and values of the samples explored
KeyPool == {K_accel_x, K_gyro_x, K_lean_angle, K_g_force_x, K_roll_rate,
            K_calibrated}
SampleValue(key, variant) == Len(key) * variant
Timestamps == {1, 2}
ValueVariants == {1, 2}

\* publisher.publish(sensor_name, &data)
PublisherPublish ==
    /\ sent = <<>>
    /\ \E fail \in 0..3 : sent' = PublishAll(sample, fail)
    /\ UNCHANGED sample
    /\ UNCHANGED OutsidePublisher

\* the publisher is not exercised while other parts are explored
PublisherIdle ==
    /\ sample = [timestamp |-> 1, data |-> <<>>]
    /\ sent = <<>>

----------------------------------------------------------------------------
(* MPU6500 *)

ACCEL_CONFIG == 28
GYRO_CONFIG == 27
CALIBRATION_SAMPLES == 300

\* i32 and i16 division truncates toward zero
TruncDiv(a, b) == IF a >= 0 THEN a \div b ELSE -((-a) \div b)

\* init: match self.settings.accel_range { ... } for the config byte
AccelConfig(accel_range) ==
    CASE accel_range = 16 -> 24
      [] accel_range = 8 -> 16
      [] accel_range = 4 -> 8
      [] accel_range = 2 -> 0
      [] OTHER -> 24

\* init: match self.settings.gyro_range { ... } for the config byte
GyroConfig(gyro_range) ==
    CASE gyro_range = 2000 -> 24
      [] gyro_range = 1000 -> 16
      [] gyro_range = 500 -> 8
      [] gyro_range = 250 -> 0
      [] OTHER -> 24

GravityCount_swapped(accel_range) ==
    CASE accel_range = 16 -> 2048
      [] accel_range = 8 -> 8192
      [] accel_range = 4 -> 4096
      [] accel_range = 2 -> 16384
      [] OTHER -> 2048

\* calibrate: the count subtracted from the Z accelerometer offset
GravityCount(accel_range) ==
    CASE accel_range = 16 -> 2048
      [] accel_range = 8 -> 4096
      [] accel_range = 4 -> 8192
      [] accel_range = 2 -> 16384
      [] OTHER -> 2048

AccelScale_swapped(accel_range) ==
    CASE accel_range = 16 -> <<2048, 1>>
      [] accel_range = 8 -> <<8192, 1>>
      [] accel_range = 4 -> <<4096, 1>>
      [] accel_range = 2 -> <<16384, 1>>
      [] OTHER -> <<2048, 1>>

\* read: let accel_scale = match self.settings.accel_range { ... }
AccelScale(accel_range) ==
    CASE accel_range = 16 -> <<2048, 1>>
      [] accel_range = 8 -> <<4096, 1>>
      [] accel_range = 4 -> <<8192, 1>>
      [] accel_range = 2 -> <<16384, 1>>
      [] OTHER -> <<2048, 1>>

\* read: let gyro_scale = match self.settings.gyro_range { ... }
GyroScale(gyro_range) ==
    CASE gyro_range = 2000 -> <<82, 5>>
      [] gyro_range = 1000 -> <<164, 5>>
      [] gyro_range = 500 -> <<328, 5>>
      [] gyro_range = 250 -> <<656, 5>>
      [] OTHER -> <<82, 5>>

\* init: (1000 / self.settings.sample_rate as u32 - 1) as u8. A division by
\* zero panics; 0 - 1 in u32 panics in a build with overflow checks and wraps
\* to 0xFFFFFFFF, 255 as u8, in a build without them.
DividerOutcome(sample_rate, build) ==
    IF sample_rate = 0 THEN "panic"
    ELSE IF 1000 \div sample_rate = 0 /\ build = "checked" THEN "panic"
    ELSE "computed"

\* the u8 written: as u8 keeps the low eight bits
SampleRateDivByte(sample_rate) == ((1000 \div sample_rate) - 1) % 256

InitWrites_continuesAfterFailure(settings, outcome, wfail) ==
    LET w1 == <<107, 0>>
        w2 == <<25, SampleRateDivByte(settings.sample_rate)>>
        w3 == <<ACCEL_CONFIG, AccelConfig(settings.accel_range)>>
        w4 == <<GYRO_CONFIG, GyroConfig(settings.gyro_range)>>
        all == <<w1, w2, w3, w4>>
    IN  IF outcome = "panic"
        THEN (IF wfail = 1 THEN [status |-> "err", writes |-> <<>>]
              ELSE [status |-> "panic", writes |-> <<w1>>])
        ELSE IF wfail = 0 THEN [status |-> "ok", writes |-> all]
        ELSE [status |-> "err",
              writes |-> SubSeq(all, 1, wfail - 1) \o SubSeq(all, wfail + 1, 4)]

\* Sensor::init for MPU6500: the register writes, in order; write number
\* wfail fails (0: none does). The result: status and the writes that reached
\* the chip.
InitWrites(settings, outcome, wfail) ==
    LET w1 == <<107, 0>>
        w2 == <<25, SampleRateDivByte(settings.sample_rate)>>
        w3 == <<ACCEL_CONFIG, AccelConfig(settings.accel_range)>>
        w4 == <<GYRO_CONFIG, GyroConfig(settings.gyro_range)>>
    IN  IF wfail = 1 THEN [status |-> "err", writes |-> <<>>]
        ELSE IF outcome = "panic" THEN [status |-> "panic", writes |-> <<w1>>]
        ELSE IF wfail = 0 THEN [status |-> "ok", writes |-> <<w1, w2, w3, w4>>]
        ELSE [status |-> "err", writes |-> SubSeq(<<w1, w2, w3, w4>>, 1, wfail - 1)]

\* the six-axis vector the chip returns to read_raw call number i (from 0) of
\* an operation: a constant vector, every other call displaced by the jitter
ReadingAxis(signal, i, a) ==
    signal.base[a] + (IF i % 2 = 1 THEN signal.jitter[a] ELSE 0)

Reading(signal, i) == [a \in 1..6 |-> ReadingAxis(signal, i, a)]

\* calibrate: accel_sums[i] += readings[i] as i32, over the samples lo..hi-1
\* (the i32 sums cannot overflow; they are added here by halves)
RECURSIVE SumRange(_, _, _, _)
SumRange(signal, axis, lo, hi) ==
    IF hi <= lo THEN 0
    ELSE IF hi = lo + 1 THEN ReadingAxis(signal, lo, axis)
    ELSE LET mid == (lo + hi) \div 2
         IN  SumRange(signal, axis, lo, mid) + SumRange(signal, axis, mid, hi)

SumReadings(signal, axis, n) == SumRange(signal, axis, 0, n)

\* the chip behind the handle: its signal, the column sums of the readings it
\* returns to the read_raw calls of one calibration (the signal does not
\* change, so they are summed once, when the chip is set up), and the
\* register writes that reached it
Chip(signal) ==
    [signal |-> signal,
     sums |-> [a \in 1..6 |-> SumReadings(signal, a, CALIBRATION_SAMPLES)],
     writes |-> <<>>]

Calibrate_accumulates(d, sums, cfail) ==
    IF cfail # 0
    THEN [status |-> "err", calibration |-> d.calibration, reads |-> cfail - 1]
    ELSE LET mean(a) == TruncDiv(sums[a], CALIBRATION_SAMPLES)
             old == d.calibration
         IN  [status |-> "ok",
              calibration |->
                 [accel_offsets |->
                     <<old.accel_offsets[1] + mean(1),
                       old.accel_offsets[2] + mean(2),
                       old.accel_offsets[3] + mean(3)
                           - GravityCount(d.settings.accel_range)>>,
                  gyro_offsets |->
                     <<old.gyro_offsets[1] + mean(4),
                       old.gyro_offsets[2] + mean(5),
                       old.gyro_offsets[3] + mean(6)>>],
              reads |-> CALIBRATION_SAMPLES]

Calibrate_gravityOnAllAxes(d, sums, cfail) ==
    IF cfail # 0
    THEN [status |-> "err", calibration |-> d.calibration, reads |-> cfail - 1]
    ELSE LET mean(a) == TruncDiv(sums[a], CALIBRATION_SAMPLES)
             g == GravityCount(d.settings.accel_range)
         IN  [status |-> "ok",
              calibration |->
                 [accel_offsets |-> <<mean(1) - g, mean(2) - g, mean(3) - g>>,
                  gyro_offsets |-> <<mean(4), mean(5), mean(6)>>],
              reads |-> CALIBRATION_SAMPLES]

Calibrate_writesBeforeFailure(d, sums, cfail) ==
    LET mean(a) == TruncDiv(sums[a], CALIBRATION_SAMPLES)
        written == [accel_offsets |->
                       <<mean(1), mean(2),
                         mean(3) - GravityCount(d.settings.accel_range)>>,
                    gyro_offsets |-> <<mean(4), mean(5), mean(6)>>]
    IN  IF cfail # 0
        THEN [status |-> "err", calibration |-> written, reads |-> cfail - 1]
        ELSE [status |-> "ok", calibration |-> written,
              reads |-> CALIBRATION_SAMPLES]

\* MPU6500::calibrate, given the sums its loop accumulates over the readings;
\* read_raw call number cfail fails (0: none does). The result: status, the
\* calibration data, the read_raw calls that succeeded.
Calibrate(d, sums, cfail) ==
    IF cfail # 0
    THEN [status |-> "err", calibration |-> d.calibration, reads |-> cfail - 1]
    ELSE LET mean(a) == TruncDiv(sums[a], CALIBRATION_SAMPLES)
         IN  [status |-> "ok",
              calibration |->
                 [accel_offsets |->
                     <<mean(1), mean(2),
                       mean(3) - GravityCount(d.settings.accel_range)>>,
                  gyro_offsets |-> <<mean(4), mean(5), mean(6)>>],
              reads |-> CALIBRATION_SAMPLES]

\* MPU6500::new, the struct before init and calibrate
NewDevice(name, settings) ==
    [state |-> "unbuilt", name |-> name, settings |-> settings, enabled |-> TRUE,
     calibration |-> [accel_offsets |-> <<0, 0, 0>>, gyro_offsets |-> <<0, 0, 0>>],
     accel_filters |-> [i \in 1..3 |-> New(<<1, 10000>>, <<1, 400>>, <<1, 100>>)],
     gyro_filters |-> [i \in 1..3 |-> New(<<1, 10000>>, <<3, 1000>>, <<1, 100>>)]]

\* the settings field of a device whose settings did not parse
Unparsed == [accel_range |-> 0, gyro_range |-> 0, sample_rate |-> 0]

\* MPU6500::new: open the I2C device, parse the settings, init, calibrate.
\* plan: what goes wrong (open fails, write number wfail fails, read_raw call
\* number cfail fails) and the build
MPU6500New(name, settings, sums, plan) ==
    IF ~plan.open_ok \/ settings = None
    THEN [status |-> "err",
          dev |-> [NewDevice(name, Unparsed) EXCEPT !.state = "failed"],
          writes |-> <<>>, reads |-> 0]
    ELSE LET d0 == NewDevice(name, settings[1])
             outcome == DividerOutcome(settings[1].sample_rate, plan.build)
             ini == InitWrites(settings[1], outcome, plan.wfail)
             cal == Calibrate(d0, sums, plan.cfail)
         IN  IF ini.status = "panic"
             THEN [status |-> "panic", dev |-> [d0 EXCEPT !.state = "panicked"],
                   writes |-> ini.writes, reads |-> 0]
             ELSE IF ini.status = "err"
             THEN [status |-> "err", dev |-> [d0 EXCEPT !.state = "failed"],
                   writes |-> ini.writes, reads |-> 0]
             ELSE IF cal.status = "err"
             THEN [status |-> "err",
                   dev |-> [d0 EXCEPT !.state = "failed",
                                      !.calibration = cal.calibration],
                   writes |-> ini.writes, reads |-> cal.reads]
             ELSE [status |-> "ok",
                   dev |-> [d0 EXCEPT !.state = "running",
                                      !.calibration = cal.calibration],
                   writes |-> ini.writes, reads |-> cal.reads]

\* read: the key pushed for axis a (accel 1..3, gyro 4..6)
AxisKey(a) ==
    CASE a = 1 -> "accel_x" [] a = 2 -> "accel_y" [] a = 3 -> "accel_z"
      [] a = 4 -> "gyro_x" [] a = 5 -> "gyro_y" [] OTHER -> "gyro_z"

\* read: (raw[i] as i32 - offset[i]) as f64 / scale, for axis a
Scaled(d, raw, a) ==
    IF a <= 3
    THEN RDiv(<<raw[a] - d.calibration.accel_offsets[a], 1>>,
              AccelScale(d.settings.accel_range))
    ELSE RDiv(<<raw[a] - d.calibration.gyro_offsets[a - 3], 1>>,
              GyroScale(d.settings.gyro_range))

RECURSIVE ProcessAxes_skipsZero(_, _, _)
ProcessAxes_skipsZero(d, raw, n) ==
    IF n = 0 THEN [dev |-> d, values |-> <<>>]
    ELSE LET before == ProcessAxes_skipsZero(d, raw, n - 1)
             b == before.dev
             u == IF n <= 3 THEN Update(b.accel_filters[n], Scaled(b, raw, n))
                  ELSE Update(b.gyro_filters[n - 3], Scaled(b, raw, n))
             after == IF n <= 3
                      THEN [b EXCEPT !.accel_filters[n] = u.state]
                      ELSE [b EXCEPT !.gyro_filters[n - 3] = u.state]
         IN  [dev |-> after,
              values |-> IF u.out = Zero THEN before.values
                         ELSE Append(before.values, <<AxisKey(n), u.out>>)]

\* read: the two loops over the axes, up to axis n: each axis is scaled, its
\* filter updated, and <<key, filtered value>> pushed
RECURSIVE ProcessAxes(_, _, _)
ProcessAxes(d, raw, n) ==
    IF n = 0 THEN [dev |-> d, values |-> <<>>]
    ELSE LET before == ProcessAxes(d, raw, n - 1)
             b == before.dev
             u == IF n <= 3 THEN Update(b.accel_filters[n], Scaled(b, raw, n))
                  ELSE Update(b.gyro_filters[n - 3], Scaled(b, raw, n))
             after == IF n <= 3
                      THEN [b EXCEPT !.accel_filters[n] = u.state]
                      ELSE [b EXCEPT !.gyro_filters[n - 3] = u.state]
         IN  [dev |-> after,
              values |-> Append(before.values, <<AxisKey(n), u.out>>)]

Read_filtersWhileReading(d, raw, failAxis) ==
    IF failAxis # 0
    THEN [status |-> "err", dev |-> ProcessAxes(d, raw, failAxis - 1).dev,
          sample |-> None]
    ELSE LET done == ProcessAxes(d, raw, 6)
         IN  [status |-> "ok", dev |-> done.dev,
              sample |-> Some([device_name |-> d.name,
                               sample_rate |-> d.settings.sample_rate,
                               values |-> done.values])]

\* Sensor::read for MPU6500; the read of axis failAxis fails (0: none does)
Read(d, raw, failAxis) ==
    IF failAxis # 0
    THEN [status |-> "err", dev |-> d, sample |-> None]
    ELSE LET done == ProcessAxes(d, raw, 6)
         IN  [status |-> "ok", dev |-> done.dev,
              sample |-> Some([device_name |-> d.name,
                               sample_rate |-> d.settings.sample_rate,
                               values |-> done.values])]

\* recalibrate: reset all six filters to the uninitialized state, then re-run
\* calibration
Recalibrate(d, sums, cfail) ==
    LET r == [d EXCEPT !.accel_filters = [i \in 1..3 |-> Reset(d.accel_filters[i])],
                       !.gyro_filters = [i \in 1..3 |-> Reset(d.gyro_filters[i])]]
        cal == Calibrate(r, sums, cfail)
    IN  [status |-> cal.status,
         dev |-> [r EXCEPT !.calibration = cal.calibration],
         reads |-> cal.reads]

\* set_enabled
SetEnabled(d, on) == [d EXCEPT !.enabled = on]

\* longest run of read() calls explored between two resets of the filters
MaxReads == 2
\* number of recalibrations explored
MaxRecalibrations == 2
\* number of set_enabled calls explored
MaxToggles == 2

\* the settings a descriptor can carry: every row of the range table and a
\* pair of unknown ranges, and every kind of sample rate
RangePairs == {<<2, 250>>, <<4, 500>>, <<8, 1000>>, <<16, 2000>>, <<3, 125>>}
SampleRates == {0, 3, 1000, 2000}
RangeSettings ==
    {[accel_range |-> rp[1], gyro_range |-> rp[2], sample_rate |-> 100] :
        rp \in RangePairs}
RateSettings ==
    {[accel_range |-> 16, gyro_range |-> 2000, sample_rate |-> r] :
        r \in SampleRates}

\* the signals of the chip: biases on every axis, Z at some 1 g count, and a
\* jitter of one count on every other sample or none
Level(z) == [base |-> <<12, -7, z, 3, -5, 1>>, jitter |-> <<0, 0, 0, 0, 0, 0>>]
Signals ==
    {Level(z) : z \in {2048, 4096, 8192, 16384}}
    \cup {[base |-> <<12, -7, 2048, 3, -5, 1>>, jitter |-> <<1, 1, 1, 1, 1, 1>>]}

\* the descriptors and chips explored: every range setting on every signal,
\* the other sample rates and settings that do not parse on one signal
Setups ==
    {<<Some(st), sig>> : st \in RangeSettings, sig \in Signals}
    \cup {<<Some(st), Level(2048)>> : st \in RateSettings}
    \cup {<<None, Level(2048)>>}

\* what the sensor does at a tick: at rest, or moved
Motions == {<<0, 0, 0, 0, 0, 0>>, <<1024, 0, -1024, 82, 0, 0>>}

\* what can go wrong while a device is constructed
FailPlans ==
    {[open_ok |-> TRUE, wfail |-> 0, cfail |-> 0, build |-> b] :
        b \in {"checked", "unchecked"}}
    \cup {[open_ok |-> FALSE, wfail |-> 0, cfail |-> 0, build |-> "checked"]}
    \cup {[open_ok |-> TRUE, wfail |-> w, cfail |-> 0, build |-> "checked"] :
             w \in 1..4}
    \cup {[open_ok |-> TRUE, wfail |-> 0, cfail |-> c, build |-> "checked"] :
             c \in {1, 150, CALIBRATION_SAMPLES}}

NoDeviceCall ==
    [op |-> "none", status |-> "none", reads |-> 0, n_reads |-> 0,
     n_samples |-> 0, schema |-> <<>>, steady |-> TRUE, fresh |-> FALSE,
     wfail |-> 0,
     recals |-> 0, toggles |-> 0, snap |-> None, prev_snap |-> None]

NoRead == [status |-> "none", sample |-> None, raw |-> <<0, 0, 0, 0, 0, 0>>,
           failAxis |-> 0]

\* the keys of a sample, in order
Keys(smp) == [i \in 1..Len(smp.values) |-> smp.values[i][1]]

\* what a recalibration leaves behind
Snapshot(d) ==
    [calibration |-> d.calibration, accel_filters |-> d.accel_filters,
     gyro_filters |-> d.gyro_filters]

\* MPU6500::new(&config.bus, device) for the descriptor of the configuration
DeviceNew ==
    /\ dev.state = "unbuilt"
    /\ \E plan \in FailPlans :
         \E r \in {MPU6500New(bus_config[1].name, bus_config[1].settings,
                              chip.sums, plan)} :
             /\ dev' = r.dev
             /\ chip' = [chip EXCEPT !.writes = r.writes]
             /\ dhist' = [dhist EXCEPT !.op = "new", !.status = r.status,
                                       !.reads = r.reads,
                                       !.wfail = IF plan.open_ok
                                                    /\ bus_config[1].settings # None
                                                 THEN plan.wfail ELSE 0]
    /\ UNCHANGED last_read
    /\ UNCHANGED OutsideDevice

\* device.read() at a tick, for an enabled device
DeviceRead ==
    /\ dev.state = "running"
    /\ dev.enabled
    /\ dhist.n_reads < MaxReads
    /\ \E motion \in Motions, failAxis \in {0, 1, 5} :
         \E raw \in {[a \in 1..6 |->
                        ReadingAxis(chip.signal, dhist.n_reads, a) + motion[a]]} :
         \E r \in {Read(dev, raw, failAxis)} :
             /\ dev' = r.dev
             /\ last_read' = [status |-> r.status, sample |-> r.sample,
                              raw |-> raw, failAxis |-> failAxis]
             /\ dhist' = [dhist EXCEPT
                   !.op = "read", !.status = r.status,
                   !.n_reads = @ + 1,
                   !.fresh = ~dev.accel_filters[1].initialized,
                   !.snap = None, !.prev_snap = None,
                   !.n_samples = IF r.status = "ok" THEN @ + 1 ELSE @,
                   !.schema = IF r.status = "ok" /\ dhist.n_samples = 1
                              THEN Keys(r.sample[1]) ELSE @,
                   !.steady = @ /\ motion = <<0, 0, 0, 0, 0, 0>>
                                /\ chip.signal.jitter = <<0, 0, 0, 0, 0, 0>>]
    /\ UNCHANGED chip
    /\ UNCHANGED OutsideDevice

\* recalibrate() on a running device
DeviceRecalibrate ==
    /\ dev.state = "running"
    /\ dhist.recals < MaxRecalibrations
    /\ \E cfail \in {0, 150} :
         \E r \in {Recalibrate(dev, chip.sums, cfail)} :
             /\ dev' = r.dev
             /\ dhist' = [dhist EXCEPT
                   !.op = "recalibrate", !.status = r.status, !.reads = r.reads,
                   !.recals = @ + 1, !.n_reads = 0,
                   !.prev_snap = dhist.snap,
                   !.snap = IF r.status = "ok" THEN Some(Snapshot(r.dev))
                            ELSE None]
    /\ UNCHANGED <<chip, last_read>>
    /\ UNCHANGED OutsideDevice

\* set_enabled(on) from the interactive loop
DeviceSetEnabled ==
    /\ dev.state = "running"
    /\ dhist.toggles < MaxToggles
    /\ dev' = SetEnabled(dev, ~dev.enabled)
    /\ dhist' = [dhist EXCEPT !.op = "set_enabled", !.toggles = @ + 1,
                              !.snap = None, !.prev_snap = None]
    /\ UNCHANGED <<chip, last_read>>
    /\ UNCHANGED OutsideDevice

\* no device is constructed while other parts are explored
DeviceIdle ==
    /\ dev = [NewDevice("imu_a", Unparsed) EXCEPT !.state = "failed"]
    /\ chip = [signal |-> [base |-> <<0, 0, 0, 0, 0, 0>>,
                           jitter |-> <<0, 0, 0, 0, 0, 0>>],
               sums |-> <<0, 0, 0, 0, 0, 0>>,
               writes |-> <<>>]
    /\ last_read = NoRead
    /\ dhist = NoDeviceCall

----------------------------------------------------------------------------
(* MPU6500::calculate_angles and MPU6500::publish_mqtt *)

\* an f64 that results from a division: a number, an infinity or NaN. A
\* number is kept by its sign and its square, so that a quotient by a square
\* root stays exact.
NaN == [kind |-> "nan", sign |-> 0, sq |-> Zero]
Infinity(sign) == [kind |-> "inf", sign |-> sign, sq |-> Zero]
Finite(sign, sq) == [kind |-> "fin", sign |-> sign, sq |-> sq]

Sgn(a) == IF a[1] > 0 THEN 1 ELSE IF a[1] < 0 THEN -1 ELSE 0

\* n / d.sqrt() in f64, for d >= 0: 0/0 is NaN, x/0 is an infinity
DivBySqrt(n, d) ==
    IF d = Zero
    THEN (IF n = Zero THEN NaN ELSE Infinity(Sgn(n)))
    ELSE Finite(Sgn(n), RDiv(RMul(n, n), d))

\* f64::atan(t) * 180.0 / PI: NaN stays NaN, an infinity gives 90 degrees,
\* a number gives the angle of that tangent
AtanDegrees(t) ==
    IF t.kind = "nan" THEN [kind |-> "nan", deg90 |-> 0, tangent |-> NaN]
    ELSE IF t.kind = "inf" THEN [kind |-> "angle", deg90 |-> t.sign, tangent |-> t]
    ELSE [kind |-> "angle", deg90 |-> 0, tangent |-> t]

\* the value a key has in a list of (key, value) pairs: the last one pushed
\* under the key, or the default
Lookup(values, key, default) ==
    LET at == {i \in 1..Len(values) : values[i][1] = key}
    IN  IF at = {} THEN default
        ELSE values[CHOOSE i \in at : \A j \in at : j <= i][2]

\* calculate_angles: has_accel, set when a pair with the key accel_x is seen
HasAccel(values) == \E i \in 1..Len(values) : values[i][1] = "accel_x"

\* MPU6500::calculate_angles: None, or Some(<<lean_angle, bank_angle>>)
CalculateAngles(values) ==
    IF ~HasAccel(values) THEN None
    ELSE LET ax == Lookup(values, "accel_x", Zero)
             ay == Lookup(values, "accel_y", Zero)
             az == Lookup(values, "accel_z", Zero)
             ax2 == RMul(ax, ax)
             az2 == RMul(az, az)
             lean == AtanDegrees(DivBySqrt(ay, RAdd(ax2, az2)))
             bank == AtanDegrees(DivBySqrt(ax, az2))
         IN  Some(<<lean, bank>>)

\* serde_json::json!(f64): NaN and the infinities serialize as null
JsonF64(a) == IF a.kind = "nan" THEN <<"null">> ELSE <<"number", a>>

\* publish_mqtt: the name a filtered value is published under in DERIVED
DerivedName(key) ==
    CASE key = "accel_x" -> "lateral_g"
      [] key = "accel_y" -> "forward_g"
      [] key = "accel_z" -> "vertical_g"
      [] key = "gyro_x" -> "roll_rate"
      [] key = "gyro_y" -> "pitch_rate"
      [] key = "gyro_z" -> "yaw_rate"
      [] OTHER -> "none"

RECURSIVE InsertNamed(_, _, _)
InsertNamed(values, n, derived) ==
    IF n > Len(values) THEN derived
    ELSE LET name == DerivedName(values[n][1])
         IN  InsertNamed(values, n + 1,
                         IF name = "none" THEN derived
                         ELSE MapInsert(derived, name, JsonNumber(values[n][2])))

RECURSIVE InsertValues(_, _, _)
InsertValues(values, n, payload) ==
    IF n > Len(values) THEN payload
    ELSE InsertValues(values, n + 1,
                      MapInsert(payload, values[n][1], JsonNumber(values[n][2])))

\* publish_mqtt, the DERIVED payload: the angles if any, the named values,
\* the timestamp
MqttDerived(data) ==
    LET angles == CalculateAngles(data.values)
        d0 == IF angles = None THEN <<>>
              ELSE MapInsert(MapInsert(<<>>, "lean_angle", JsonF64(angles[1][1])),
                             "bank_angle", JsonF64(angles[1][2]))
    IN  MapInsert(InsertNamed(data.values, 1, d0), "timestamp",
                  <<"number", data.timestamp>>)

\* publish_mqtt: INFO, FILTERED, DERIVED, stopping at the first publish_data
\* that fails (fail = 0: none does)
PublishMqtt(data, fail) ==
    LET info == [timestamp |-> data.timestamp, device |-> data.device_name,
                 sample_rate |-> data.sample_rate]
        filtered == MapInsert(InsertValues(data.values, 1, <<>>), "timestamp",
                              <<"number", data.timestamp>>)
        all == << <<"INFO", info>>, <<"FILTERED", filtered>>,
                  <<"DERIVED", MqttDerived(data)>> >>
    IN  SubSeq(all, 1, IF fail = 0 THEN 3 ELSE fail - 1)

\* the filtered accelerations of the samples explored, in g
AccelValues == {<<-1, 1>>, Zero, <<1, 2>>, One}

\* a SensorData as read builds it
ReadSample(ax, ay, az) ==
    [timestamp |-> 1, device_name |-> "imu_a", sample_rate |-> 100,
     values |-> << <<"accel_x", ax>>, <<"accel_y", ay>>, <<"accel_z", az>>,
                   <<"gyro_x", <<5, 2>>>>, <<"gyro_y", Zero>>, <<"gyro_z", Zero>> >>]

\* device.publish_mqtt(&mqtt, &data)
Mpu6500PublishMqtt ==
    /\ sent = <<>>
    /\ \E fail \in 0..3 :
         sent' = PublishMqtt(sample, fail)
    /\ UNCHANGED sample
    /\ UNCHANGED OutsidePublisher

----------------------------------------------------------------------------
(* I2CBus::new (sensors/i2c/mod.rs) *)

\* the descriptors explored: a device that parses, one whose settings do not
\* parse, one whose sample rate is zero, and one naming an unknown driver
GoodSettings == [accel_range |-> 16, gyro_range |-> 2000, sample_rate |-> 100]
ZeroRateSettings == [accel_range |-> 16, gyro_range |-> 2000, sample_rate |-> 0]
DescriptorKinds ==
    {<<"mpu6500", Some(GoodSettings)>>, <<"mpu6500", None>>,
     <<"mpu6500", Some(ZeroRateSettings)>>, <<"bmp280", None>>}

\* longest device list of a bus explored
MaxDescriptors == 3

DeviceNames == <<"imu_a", "imu_b", "imu_c", "imu_d">>

BusConfigs ==
    UNION {{[i \in 1..n |-> [name |-> DeviceNames[i], driver |-> k[i][1],
                             settings |-> k[i][2]]] :
               k \in [1..n -> DescriptorKinds]} : n \in 0..MaxDescriptors}

BusIteration_continuesOnError(b, desc, r) ==
    IF desc.driver = "mpu6500"
    THEN IF r.status = "ok"
         THEN [pos |-> b.pos + 1, devices |-> Append(b.devices, r.dev),
               status |-> "building",
               log |-> Append(b.log, [name |-> desc.name, event |-> "constructed"])]
         ELSE [pos |-> b.pos + 1, devices |-> b.devices, status |-> "building",
               log |-> Append(b.log, [name |-> desc.name, event |-> "failed"])]
    ELSE [pos |-> b.pos + 1, devices |-> b.devices, status |-> "building",
          log |-> Append(b.log, [name |-> desc.name, event |-> "unsupported"])]

\* one iteration of the loop over config.devices; r is what MPU6500::new
\* returned for the descriptor (used only for a recognized driver)
BusIteration(b, desc, r) ==
    IF desc.driver = "mpu6500"
    THEN IF r.status = "ok"
         THEN [pos |-> b.pos + 1, devices |-> Append(b.devices, r.dev),
               status |-> "building",
               log |-> Append(b.log, [name |-> desc.name, event |-> "constructed"])]
         ELSE IF r.status = "err"
         THEN [pos |-> b.pos, devices |-> <<>>, status |-> "err",
               log |-> Append(b.log, [name |-> desc.name, event |-> "failed"])]
         ELSE [pos |-> b.pos, devices |-> <<>>, status |-> "panicked",
               log |-> Append(b.log, [name |-> desc.name, event |-> "panicked"])]
    ELSE [pos |-> b.pos + 1, devices |-> b.devices, status |-> "building",
          log |-> Append(b.log, [name |-> desc.name, event |-> "unsupported"])]

BusState ==
    [pos |-> bus_pos, devices |-> bus_devices, status |-> bus_status,
     log |-> bus_log]

\* the loop body for a descriptor naming the recognized driver
BusConstructDevice ==
    /\ bus_status = "building"
    /\ bus_pos <= Len(bus_config)
    /\ bus_config[bus_pos].driver = "mpu6500"
    /\ \E plan \in FailPlans :
         \E r \in {MPU6500New(bus_config[bus_pos].name,
                              bus_config[bus_pos].settings, chip.sums, plan)} :
         \E b \in {BusIteration(BusState, bus_config[bus_pos], r)} :
             /\ bus_pos' = b.pos
             /\ bus_devices' = b.devices
             /\ bus_status' = b.status
             /\ bus_log' = b.log
             /\ chip' = [chip EXCEPT !.writes = @ \o r.writes]
    /\ UNCHANGED <<bus_config, dev, last_read, dhist>>
    /\ UNCHANGED <<svars, fvars, cvars, pvars>>

\* the loop body for a descriptor naming any other driver
BusSkipUnsupported ==
    /\ bus_status = "building"
    /\ bus_pos <= Len(bus_config)
    /\ bus_config[bus_pos].driver # "mpu6500"
    /\ \E b \in {BusIteration(BusState, bus_config[bus_pos],
                              [status |-> "none"])} :
         /\ bus_pos' = b.pos
         /\ bus_devices' = b.devices
         /\ bus_status' = b.status
         /\ bus_log' = b.log
    /\ UNCHANGED bus_config
    /\ UNCHANGED OutsideBus

\* the loop is over: Ok(Self { devices })
BusReturn ==
    /\ bus_status = "building"
    /\ bus_pos > Len(bus_config)
    /\ bus_status' = "ok"
    /\ UNCHANGED <<bus_config, bus_pos, bus_devices, bus_log>>
    /\ UNCHANGED OutsideBus

\* no bus is constructed while other parts are explored
BusIdle ==
    /\ bus_config = <<>>
    /\ bus_pos = 1
    /\ bus_devices = <<>>
    /\ bus_status = "ok"
    /\ bus_log = <<>>

----------------------------------------------------------------------------
(* Specification of the acquisition loops *)

\* SensorService::new, App::new, and the locals of run_daemon / run_ui_loop
Init ==
    /\ mode \in {"daemon", "interactive"}
    /\ pc = IF mode = "daemon" THEN "head" ELSE "ui_head"
    /\ should_stop = FALSE
    /\ connected \in BOOLEAN
    /\ enabled \in EnabledAtStart
    /\ update_interval \in (IF mode = "daemon" THEN 1..MaxInterval ELSE {1})
    /\ reconnect_delay \in (IF mode = "daemon" THEN 1..MaxDelay ELSE {1})
    /\ since_attempt = 0
    /\ elapsed = 0
    /\ pos = 1
    /\ results = <<>>
    /\ pub_i = 1
    /\ should_quit = FALSE
    /\ is_measuring = TRUE
    /\ selected_sensor = 0
    /\ sensor_names \in (IF mode = "daemon" THEN {DeviceOrder} ELSE ConfiguredNames)
    /\ sensor_enabled = [n \in {sensor_names[i] : i \in 1..Len(sensor_names)} |-> TRUE]
    /\ readTried = <<>>
    /\ readFailed = {}
    /\ pubLog = <<>>
    /\ prevReadFailed = FALSE
    /\ prevPubFailed = FALSE
    /\ since_reconnect = -1
    /\ attempt_gap = -1
    /\ reconnect_result = "none"
    /\ FilterIdle
    /\ ConfigIdle
    /\ PublisherIdle
    /\ DeviceIdle
    /\ BusIdle

Next ==
    \/ (LoopHead /\ UNCHANGED OutsideService)
    \/ (ReadSensors /\ UNCHANGED OutsideService)
    \/ (Publish /\ UNCHANGED OutsideService)
    \/ (Sleep /\ UNCHANGED OutsideService)
    \/ (SignalHandler /\ UNCHANGED OutsideService)
    \/ (SinkDisconnects /\ UNCHANGED OutsideService)
    \/ (UiHead /\ UNCHANGED OutsideService)
    \/ (UiIoError /\ UNCHANGED OutsideService)
    \/ (UiSleep /\ UNCHANGED OutsideService)

Spec == Init /\ [][Next]_vars

\* run_daemon runs on a thread of its own: each of its steps is eventually taken
DaemonStep ==
    /\ mode = "daemon"
    /\ LoopHead \/ ReadSensors \/ Publish \/ Sleep
    /\ UNCHANGED OutsideService

LiveSpec == Spec /\ WF_vars(DaemonStep)

----------------------------------------------------------------------------
(* Properties of the acquisition loops *)

Range(s) == {s[i] : i \in 1..Len(s)}

\* the devices handed to publish this tick, in the order of the calls
Published == [i \in 1..Len(pubLog) |-> pubLog[i][1]]

\* the declared order: buses as declared, devices of a bus as declared
Declared == Flatten(Buses)

\* the enabled devices in declared order
EnabledDeclared == LET On(d) == enabled[d] IN SelectSeq(Declared, On)

\* the enabled devices whose read succeeded this tick, in declared order
SucceededDeclared ==
    LET Good(d) == enabled[d] /\ d \in Range(readTried) /\ d \notin readFailed
    IN  SelectSeq(Declared, Good)

(* C1: two reconnect attempts are never closer together than                *)
(* reconnect_delay, whether the earlier attempt succeeded or failed.        *)
C1_ReconnectSpacing == attempt_gap = -1 \/ attempt_gap >= reconnect_delay

(* C2: at the end of a tick the publish invocations are, in order, exactly  *)
(* the enabled devices whose read succeeded, in (bus, device) declaration   *)
(* order, each once; no disabled device is ever read or published.          *)
C2_PublishOrder ==
    /\ pc = "sleep" => Published = SucceededDeclared
    /\ pc \in {"read", "publish", "sleep"} =>
         \A d \in Range(readTried) \cup Range(Published) : enabled[d]

C2_Witness ==
    /\ pc = "sleep"
    /\ Published = <<"imu_a", "imu_c">>
    /\ ~enabled["imu_b"]

(* C3: run_daemon checks the stop flag only at loop head: a tick during     *)
(* which the flag becomes set still completes all its reads and publishes,  *)
(* no further tick is started, and the loop eventually terminates.          *)
C3_StopAtLoopHead ==
    /\ [][(mode = "daemon" /\ should_stop /\ pc \in {"read", "publish"})
            => pc' \in {"read", "publish", "sleep"}]_vars
    /\ []((mode = "daemon" /\ pc = "sleep")
            => (readTried = EnabledDeclared /\ Published = results))
    /\ [][(mode = "daemon" /\ should_stop /\ pc = "head")
            => pc' \in {"head", "done"}]_vars
    /\ ((mode = "daemon" /\ should_stop) ~> (pc = "done"))

C3_Witness ==
    /\ mode = "daemon"
    /\ should_stop
    /\ pc = "sleep"
    /\ Len(readTried) = 3
    /\ Len(pubLog) >= 2

(* C4: once the stop flag is set, the acquisition loop of either run mode   *)
(* exits at its next loop head: no read or publish is started after it.     *)
C4_StopObservedByBothLoops ==
    [][(should_stop /\ pc \in {"head", "ui_head"})
         => pc' \in {pc, "done", "ui_error"}]_vars

(* C5: a read error drops only that device's sample: every enabled device   *)
(* is still read in that tick, the devices read successfully are published, *)
(* the loop ends only on the stop flag, and this holds of every tick, so a  *)
(* device that failed in one tick is read again in the next.                *)
C5_ReadErrorIsolated ==
    /\ pc \in {"publish", "sleep"} => readTried = EnabledDeclared
    /\ pc = "sleep" => Range(Published) = Range(readTried) \ readFailed
    /\ pc = "done" => should_stop

C5_Witness ==
    /\ pc = "sleep"
    /\ prevReadFailed
    /\ readFailed = {"imu_b"}
    /\ Published = <<"imu_a", "imu_c">>

(* C6: a publish failure is not retried and does not stop the tick: every   *)
(* sample of the tick is passed to the sink exactly once whatever the       *)
(* outcomes, and from the end of the tick the loop goes to its next head.   *)
C6_PublishFailureIsolated ==
    /\ [](pc = "publish" => Published = SubSeq(results, 1, pub_i - 1))
    /\ [](pc = "sleep" => Published = results)
    /\ [][pc = "sleep" => pc' \in {"sleep", "head", "ui_head"}]_vars

C6_Witness ==
    /\ pc = "sleep"
    /\ prevPubFailed
    /\ Len(pubLog) = 3
    /\ ~pubLog[1][2]
    /\ pubLog[3][2]

(* C21: every tick of run_daemon runs the read-and-publish pass, whether no  *)
(* reconnect was attempted, a reconnect succeeded or a reconnect failed in  *)
(* that tick: the loop head always goes on to the reads, and at the end of  *)
(* the tick every enabled device was read and every sample published.       *)
C21_ReconnectNeverSkipsTick ==
    /\ [][(mode = "daemon" /\ pc = "head" /\ LoopCondition /\ pc' # pc)
            => (pc' = "read" /\ pos' = 1
                /\ reconnect_result' \in {"none", "ok", "failed"})]_vars
    /\ []((mode = "daemon" /\ pc = "sleep")
            => (readTried = EnabledDeclared /\ Published = results))
    /\ [][(mode = "daemon" /\ pc = "sleep") => pc' \in {"sleep", "head"}]_vars

C21_Witness ==
    /\ mode = "daemon"
    /\ pc = "sleep"
    /\ reconnect_result = "failed"
    /\ ~connected
    /\ Len(readTried) = 3
    /\ Len(pubLog) = 3

\* the name under which the UI shows a device
NameOf(d) ==
    sensor_names[CHOOSE i \in 1..Len(DeviceOrder) : DeviceOrder[i] = d]

(* C30: after any sequence of NextSensor, PrevSensor and ToggleSensor        *)
(* actions in the interactive loop, the enabled flag of every device equals *)
(* the state App.sensor_enabled records for it, so a sensor shown as        *)
(* disabled is never read and one shown as enabled is read on every         *)
(* measuring tick.                                                          *)
C30_EnabledConsistent ==
    mode = "interactive" =>
        /\ \A d \in Devices : enabled[d] = sensor_enabled[NameOf(d)]
        /\ pc \in {"publish", "sleep"} =>
              \A d \in Devices :
                 (d \in Range(readTried)) <=> sensor_enabled[NameOf(d)]

----------------------------------------------------------------------------
(* Specification of the filter *)

\* the acquisition loops are not started while the filter is explored
ServiceIdle ==
    /\ mode = "daemon"
    /\ pc = "done"
    /\ should_stop = FALSE
    /\ connected = TRUE
    /\ enabled = [d \in Devices |-> TRUE]
    /\ update_interval = 1
    /\ reconnect_delay = 1
    /\ since_attempt = 0
    /\ elapsed = 0
    /\ pos = 1
    /\ results = <<>>
    /\ pub_i = 1
    /\ should_quit = FALSE
    /\ is_measuring = TRUE
    /\ selected_sensor = 0
    /\ sensor_names = DeviceOrder
    /\ sensor_enabled = [d \in Devices |-> TRUE]
    /\ readTried = <<>>
    /\ readFailed = {}
    /\ pubLog = <<>>
    /\ prevReadFailed = FALSE
    /\ prevPubFailed = FALSE
    /\ since_reconnect = -1
    /\ attempt_gap = -1
    /\ reconnect_result = "none"

FilterInit ==
    /\ ServiceIdle
    /\ \E q \in QValues, r \in RValues, dz \in DeadZones :
         /\ filter = New(q, r, dz)
         /\ twin = New(q, r, dz)
    /\ output = [f |-> Zero, t |-> Zero]
    /\ fhist = NoCall
    /\ ConfigIdle
    /\ PublisherIdle
    /\ DeviceIdle
    /\ BusIdle

FilterNext == FilterUpdate \/ FilterUpdateAtRest \/ FilterReset

FilterSpec == FilterInit /\ [][FilterNext]_vars

----------------------------------------------------------------------------
(* Properties of the filter *)

(* C7: the first update(m) on a freshly constructed filter returns m, marks *)
(* the filter initialized, and leaves get_estimate() = m.                   *)
C7_FirstUpdateIdentity ==
    (fhist.op = "update" /\ ~fhist.was_initialized /\ fhist.resets = 0)
      => /\ output.f = fhist.m
         /\ filter.initialized
         /\ get_estimate(filter) = fhist.m

C7_Witness ==
    /\ fhist.op = "update"
    /\ ~fhist.was_initialized
    /\ fhist.resets = 0
    /\ output.f = <<19, 10>>
    /\ filter.q = <<2, 1>>

(* C8 as stated: while every input since the first update lies within       *)
(* dead_zone of last_output, every update returns the first value v.        *)
C8_DeadZoneHold_AnyParameters ==
    (fhist.op = "update" /\ fhist.held) => output.f = fhist.first

\* the adaptive gain alpha cannot exceed 1: delta stays below 1, or k <= 2/3
GainAtMostOne ==
    RLe(filter.dead_zone, <<1, 2>>) \/ RLe(filter.q, filter.r)

(* C8 amended: the same, for filters with dead_zone <= 0.5 or q <= r.       *)
C8_DeadZoneHold ==
    (fhist.op = "update" /\ fhist.held /\ GainAtMostOne)
      => output.f = fhist.first

C8_Witness ==
    /\ fhist.op = "update"
    /\ fhist.was_initialized
    /\ fhist.held
    /\ GainAtMostOne
    /\ fhist.updates = 3
    /\ fhist.m # fhist.first
    /\ get_estimate(filter) # fhist.first
    /\ output.f = fhist.first

(* C9: after the first update, through any updates and resets, the error    *)
(* covariance satisfies 0.1 r <= p <= 10 r.                                 *)
C9_CovarianceBounds ==
    fhist.op # "new"
      => /\ RLe(RMul(filter.r, <<1, 10>>), filter.p)
         /\ RLe(filter.p, RMul(filter.r, <<10, 1>>))

\* the clamp has acted: p times (1 - k) fell below 0.1 r and p is held there
C9_Witness ==
    /\ fhist.op = "update"
    /\ fhist.resets = 1
    /\ filter.p = RMul(filter.r, <<1, 10>>)
    /\ RLt(filter.k, <<1, 10>>)

(* C10: after reset() the estimate is 0 and the filter is uninitialized,    *)
(* the next update(m) returns m, and from then on the filter is in the      *)
(* state, and returns the outputs, of a freshly constructed filter with the *)
(* same (q, r, dead_zone) fed the same inputs.                              *)
C10_ResetLaw ==
    /\ fhist.op = "reset" => (get_estimate(filter) = Zero /\ ~filter.initialized)
    /\ (fhist.resets > 0 /\ fhist.op = "update" /\ ~fhist.was_initialized)
         => output.f = fhist.m
    /\ (fhist.resets > 0 /\ fhist.op = "update") => output.f = output.t
    /\ fhist.resets > 0 => filter = twin

C10_Witness ==
    /\ fhist.resets = 1
    /\ fhist.op = "update"
    /\ fhist.updates = 3
    /\ output.f = output.t
    /\ output.f # fhist.m
    /\ output.f # fhist.prev_output

\* the estimate after the call lies within the dead zone of the output
\* returned by the call before
InsideDeadZone ==
    RLt(RAbs(RSub(filter.x, fhist.prev_output)), filter.dead_zone)

(* C27 as stated: after every update the returned value equals last_output, *)
(* and it is the previous last_output exactly when |x - last_output| <       *)
(* dead_zone, the current estimate x otherwise.                              *)
C27_OutputIsLastOutput_EveryUpdate ==
    fhist.op = "update" =>
        /\ output.f = filter.last_output
        /\ IF InsideDeadZone THEN output.f = fhist.prev_output
           ELSE output.f = filter.x

(* C27 amended: after every update the returned value equals last_output;   *)
(* on an initialized filter it is the previous last_output exactly when      *)
(* |x - last_output| < dead_zone and the current estimate x otherwise; the   *)
(* first update returns the estimate x, which is the measurement, whatever   *)
(* the dead zone.                                                            *)
C27_OutputIsLastOutput ==
    fhist.op = "update" =>
        /\ output.f = filter.last_output
        /\ IF fhist.was_initialized /\ InsideDeadZone
           THEN output.f = fhist.prev_output
           ELSE output.f = filter.x

C27_Witness ==
    /\ fhist.op = "update"
    /\ fhist.was_initialized
    /\ InsideDeadZone
    /\ filter.x # fhist.prev_output
    /\ output.f = fhist.prev_output
    /\ filter.last_output = fhist.prev_output

\* v lies strictly between a and b
StrictlyBetween(v, a, b) ==
    \/ (RLt(a, v) /\ RLt(v, b))
    \/ (RLt(b, v) /\ RLt(v, a))

\* the last call was an update of an initialized filter with a measurement
\* different from the estimate, and the dead zone did not hold the output
MovedUpdate ==
    /\ fhist.op = "update"
    /\ fhist.was_initialized
    /\ fhist.m # fhist.prev_x
    /\ RLe(filter.dead_zone, RAbs(RSub(filter.x, fhist.prev_output)))

(* C11 as stated: an update of an initialized filter that the dead zone     *)
(* does not hold, with m different from the estimate x, returns a value     *)
(* strictly between x and m, for any parameters.                            *)
C11_StrictlyBetween_AnyParameters ==
    MovedUpdate => StrictlyBetween(output.f, fhist.prev_x, fhist.m)

\* the blend factor alpha stays below 1: q < r, or |m - x| <= 1
AlphaBelowOne ==
    \/ RLt(filter.q, filter.r)
    \/ RLe(RAbs(RSub(fhist.m, fhist.prev_x)), One)

(* C11 amended: the same, for filters with q < r or for measurements with   *)
(* |m - x| <= 1.                                                            *)
C11_StrictlyBetween ==
    (MovedUpdate /\ AlphaBelowOne)
        => StrictlyBetween(output.f, fhist.prev_x, fhist.m)

C11_Witness ==
    /\ MovedUpdate
    /\ RLt(filter.q, filter.r)
    /\ filter.q # Zero
    /\ RLt(One, RAbs(RSub(fhist.m, fhist.prev_x)))
    /\ fhist.updates = 3
    /\ StrictlyBetween(output.f, fhist.prev_x, fhist.m)

----------------------------------------------------------------------------
(* Specification of the startup configuration *)

ConfigInit ==
    /\ ServiceIdle
    /\ FilterIdle
    /\ cfg_file \in [update_interval_ms : FileIntervals, port : FilePorts,
                     qos : FileQos, base_topic : FileTopics]
    /\ cli \in [update_interval_ms : CliIntervals, mqtt_port : CliPorts]
    /\ config = None
    /\ startup = "loading"
    /\ PublisherIdle
    /\ DeviceIdle
    /\ BusIdle

ConfigNext == FromFile \/ CliOverrides

ConfigSpec == ConfigInit /\ [][ConfigNext]_vars

----------------------------------------------------------------------------
(* Properties of the startup configuration *)

\* the four faults the claim lists
FaultyFile ==
    \/ cfg_file.update_interval_ms = 0
    \/ cfg_file.port = 0
    \/ cfg_file.qos \notin 0..2
    \/ cfg_file.base_topic = ""

(* C19: validate accepts the default configuration, and a file with         *)
(* update_interval_ms = 0, port = 0, qos outside 0..2 or an empty           *)
(* base_topic is rejected: startup fails and no configuration is held.      *)
C19_ValidateRejectsFaults ==
    /\ (startup # "loading" /\ cfg_file = DefaultConfig) => startup # "failed"
    /\ (startup # "loading" /\ FaultyFile)
          => (startup = "failed" /\ config = None)

(* C29: the update interval the acquisition loops run with is greater than  *)
(* 0: no configuration file and CLI overrides that get past startup leave   *)
(* service.update_interval_ms equal to 0.                                   *)
C29_IntervalPositive ==
    startup = "ready" => config[1].update_interval_ms > 0

C19_Witness ==
    /\ startup = "failed"
    /\ cfg_file.qos = -1
    /\ cfg_file.update_interval_ms # 0
    /\ cfg_file.port # 0
    /\ cfg_file.base_topic # ""

----------------------------------------------------------------------------
(* Specification of the publisher *)

PublisherInit ==
    /\ ServiceIdle
    /\ FilterIdle
    /\ ConfigIdle
    /\ \E keys \in SUBSET KeyPool, t \in Timestamps, variant \in ValueVariants :
         sample = [timestamp |-> t,
                   data |-> [k \in keys |-> SampleValue(k, variant)]]
    /\ sent = <<>>
    /\ DeviceIdle
    /\ BusIdle

PublisherNext == PublisherPublish

PublisherSpec == PublisherInit /\ [][PublisherNext]_vars

----------------------------------------------------------------------------
(* Properties of the publisher *)

\* the keys of the pool whose names contain "angle", "g_force" or "rate"
NamedDerived == {K_lean_angle, K_g_force_x, K_roll_rate, K_calibrated}

\* the payloads sent on .../DERIVED
DerivedSent == {sent[i][2] : i \in {j \in 1..Len(sent) : sent[j][1] = "DERIVED"}}

(* C18: the message published on .../DERIVED carries exactly the timestamp  *)
(* and those keys of the sample whose names contain "angle", "g_force" or   *)
(* "rate", each with the sample's value, and no other key.                  *)
C18_DerivedKeys ==
    \A msg \in DerivedSent :
        /\ DOMAIN msg = {K_timestamp} \cup (DOMAIN sample.data \cap NamedDerived)
        /\ msg[K_timestamp] = JsonRfc3339(sample.timestamp)
        /\ \A k \in DOMAIN msg \ {K_timestamp} : msg[k] = JsonNumber(sample.data[k])

C18_Witness ==
    /\ DerivedSent # {}
    /\ DOMAIN sample.data = KeyPool
    /\ sample.data[K_calibrated] = 20

----------------------------------------------------------------------------
(* Specification of one device *)

DeviceInit ==
    /\ ServiceIdle
    /\ FilterIdle
    /\ ConfigIdle
    /\ PublisherIdle
    /\ \E setup \in Setups :
         /\ bus_config = <<[name |-> "imu_a", driver |-> "mpu6500",
                            settings |-> setup[1]]>>
         /\ dev = NewDevice("imu_a", IF setup[1] = None THEN Unparsed
                                     ELSE setup[1][1])
         /\ chip = Chip(setup[2])
    /\ bus_pos = 1
    /\ bus_devices = <<>>
    /\ bus_status = "building"
    /\ bus_log = <<>>
    /\ last_read = NoRead
    /\ dhist = NoDeviceCall

DeviceNext == DeviceNew \/ DeviceRead \/ DeviceRecalibrate \/ DeviceSetEnabled

DeviceSpec == DeviceInit /\ [][DeviceNext]_vars

----------------------------------------------------------------------------
(* Properties of one device *)

\* the range table: config byte, LSB per unit, 1 g raw count; any setting
\* not listed is treated as +-16 g / +-2000 dps
AccelRow(setting) ==
    CASE setting = 2 -> [cfg |-> 0, lsb |-> <<16384, 1>>, one_g |-> 16384]
      [] setting = 4 -> [cfg |-> 8, lsb |-> <<8192, 1>>, one_g |-> 8192]
      [] setting = 8 -> [cfg |-> 16, lsb |-> <<4096, 1>>, one_g |-> 4096]
      [] OTHER -> [cfg |-> 24, lsb |-> <<2048, 1>>, one_g |-> 2048]

GyroRow(setting) ==
    CASE setting = 250 -> [cfg |-> 0, lsb |-> <<1312, 10>>]
      [] setting = 500 -> [cfg |-> 8, lsb |-> <<656, 10>>]
      [] setting = 1000 -> [cfg |-> 16, lsb |-> <<328, 10>>]
      [] OTHER -> [cfg |-> 24, lsb |-> <<164, 10>>]

\* the last call was a read that returned a Sample
SampleReturned == dhist.op = "read" /\ last_read.status = "ok"

\* the value the last Sample carries under a key
ValueOf(key) ==
    LET vs == last_read.sample[1].values
        i == CHOOSE j \in 1..Len(vs) : vs[j][1] = key
    IN  vs[i][2]

\* every raw read so far returned the same vector, whose Z accelerometer
\* value is the 1 g raw count of the configured range
ConstantAtOneG ==
    /\ dhist.steady
    /\ chip.signal.jitter = <<0, 0, 0, 0, 0, 0>>
    /\ chip.signal.base[3] = AccelRow(dev.settings.accel_range).one_g

WithinDeadZone(v, target) == RLe(RAbs(RSub(v, target)), <<1, 100>>)

(* C12 as stated: with a constant raw vector whose Z is the 1 g count,      *)
(* every read after calibration yields accelerations (0, 0, 0) g within     *)
(* the dead zone.                                                           *)
C12_ZeroAtRest_AllAxes ==
    (SampleReturned /\ ConstantAtOneG)
        => /\ WithinDeadZone(ValueOf("accel_x"), Zero)
           /\ WithinDeadZone(ValueOf("accel_y"), Zero)
           /\ WithinDeadZone(ValueOf("accel_z"), Zero)

(* C12 amended: with that input every read after calibration yields         *)
(* accelerations (0, 0, 1) g within the dead zone: X and Y are zero and Z    *)
(* reads the 1 g of gravity.                                                *)
C12_ZeroAtRest ==
    (SampleReturned /\ ConstantAtOneG)
        => /\ WithinDeadZone(ValueOf("accel_x"), Zero)
           /\ WithinDeadZone(ValueOf("accel_y"), Zero)
           /\ WithinDeadZone(ValueOf("accel_z"), One)

C12_Witness ==
    /\ SampleReturned
    /\ ConstantAtOneG
    /\ dev.settings.accel_range = 8
    /\ dhist.n_reads = 2
    /\ dhist.recals = 1
    /\ ValueOf("accel_x") = Zero
    /\ ValueOf("accel_z") = One

(* C13: every Sample after the first has the same set of keys, whatever     *)
(* the raw values, recalibrations and enable/disable in between.            *)
C13_SchemaStable ==
    (last_read.status = "ok" /\ dhist.n_samples >= 2)
        => Range(Keys(last_read.sample[1])) = Range(dhist.schema)

C13_Witness ==
    /\ SampleReturned
    /\ dhist.n_samples >= 4
    /\ dhist.recals >= 1
    /\ dhist.toggles >= 1
    /\ ~dhist.steady
    /\ Len(dhist.schema) = 6

(* C14: the accel config byte written at bring-up, the Z 1 g count          *)
(* subtracted in calibration and the divisor used in read come from the     *)
(* same row of the range table, likewise the gyro config byte and divisor;  *)
(* an unknown setting is treated as +-16 g / +-2000 dps in all three.        *)
C14_RangeTable ==
    LET a == AccelRow(dev.settings.accel_range)
        g == GyroRow(dev.settings.gyro_range)
        mean_z == TruncDiv(chip.sums[3], CALIBRATION_SAMPLES)
    IN  /\ dev.state = "running" =>
             /\ chip.writes[3] = <<28, a.cfg>>
             /\ chip.writes[4] = <<27, g.cfg>>
             /\ dev.calibration.accel_offsets[3] = mean_z - a.one_g
        /\ (SampleReturned /\ dhist.fresh) =>
             /\ \A i \in 1..3 :
                  RMul(ValueOf(AxisKey(i)), a.lsb)
                     = <<last_read.raw[i] - dev.calibration.accel_offsets[i], 1>>
             /\ \A i \in 1..3 :
                  RMul(ValueOf(AxisKey(i + 3)), g.lsb)
                     = <<last_read.raw[i + 3] - dev.calibration.gyro_offsets[i], 1>>

C14_Witness ==
    /\ SampleReturned
    /\ dhist.fresh
    /\ dev.settings.accel_range = 8
    /\ dev.settings.gyro_range = 1000
    /\ chip.writes[3] = <<28, 16>>
    /\ ValueOf("accel_x") = <<1, 4>>
    /\ ValueOf("gyro_x") = <<5, 2>>

(* C15: bring-up writes (1000 / sample_rate) - 1, truncated to a byte, to   *)
(* register 0x19 for every configured sample rate, and the computation      *)
(* never divides by zero and never underflows.                              *)
C15_SampleRateDivider ==
    /\ dev.state # "panicked"
    /\ Len(chip.writes) >= 2 =>
         /\ 1000 \div dev.settings.sample_rate >= 1
         /\ chip.writes[2] = <<25, ((1000 \div dev.settings.sample_rate) - 1) % 256>>

(* C17: recalibrating resets all six filters to the uninitialized state and *)
(* re-runs calibration, and recalibrating twice with unchanged raw input    *)
(* leaves the offsets and filter states of recalibrating once.              *)
C17_RecalibrateIdempotent ==
    /\ dhist.op = "recalibrate" =>
         /\ \A i \in 1..3 :
              /\ dev.accel_filters[i] = New(<<1, 10000>>, <<1, 400>>, <<1, 100>>)
              /\ dev.gyro_filters[i] = New(<<1, 10000>>, <<3, 1000>>, <<1, 100>>)
         /\ dhist.status = "ok" => dhist.reads = CALIBRATION_SAMPLES
    /\ (dhist.op = "recalibrate" /\ dhist.status = "ok" /\ dhist.prev_snap # None)
          => Snapshot(dev) = dhist.prev_snap[1]

C17_Witness ==
    /\ dhist.op = "recalibrate"
    /\ dhist.status = "ok"
    /\ dhist.prev_snap # None
    /\ dhist.n_samples >= 2
    /\ chip.signal.jitter # <<0, 0, 0, 0, 0, 0>>
    /\ dev.calibration.accel_offsets = <<12, -6, 0>>

(* C20: a read in which one of the six axis reads fails returns an error    *)
(* without changing any filter state or calibration data, and produces no   *)
(* Sample.                                                                  *)
C20_FailedReadChangesNothing ==
    [][(dhist'.n_reads = dhist.n_reads + 1 /\ last_read'.status = "err")
          => (dev' = dev /\ last_read'.sample = None)]_vars

C20_Witness ==
    /\ dhist.op = "read"
    /\ last_read.status = "err"
    /\ last_read.failAxis = 5
    /\ last_read.sample = None
    /\ dev.accel_filters[1].initialized
    /\ last_read.raw[1] # dev.calibration.accel_offsets[1]

----------------------------------------------------------------------------
(* Specification of the construction of one bus *)

BusInit ==
    /\ ServiceIdle
    /\ FilterIdle
    /\ ConfigIdle
    /\ PublisherIdle
    /\ bus_config \in BusConfigs
    /\ bus_pos = 1
    /\ bus_devices = <<>>
    /\ bus_status = "building"
    /\ bus_log = <<>>
    /\ dev = [NewDevice("imu_a", Unparsed) EXCEPT !.state = "failed"]
    /\ chip = Chip(Level(2048))
    /\ last_read = NoRead
    /\ dhist = NoDeviceCall

BusNext == BusConstructDevice \/ BusSkipUnsupported \/ BusReturn

BusSpec == BusInit /\ [][BusNext]_vars

\* the names of a sequence of records
Names(seq) == [i \in 1..Len(seq) |-> seq[i].name]

Recognized(desc) == desc.driver = "mpu6500"
Constructed(entry) == entry.event = "constructed"

(* C16: I2CBus::new handles the descriptors in declared order; a descriptor *)
(* naming an unknown driver is skipped with a diagnostic; when a recognized *)
(* device fails construction the bus construction returns an error and no   *)
(* bus, and no later descriptor is handled.                                 *)
C16_BusConstruction ==
    /\ Len(bus_log) <= Len(bus_config)
    /\ Names(bus_log) = SubSeq(Names(bus_config), 1, Len(bus_log))
    /\ \A i \in 1..Len(bus_log) :
         /\ bus_log[i].event = "unsupported" <=> ~Recognized(bus_config[i])
         /\ bus_log[i].event = "failed"
               => (i = Len(bus_log) /\ bus_status = "err")
         /\ bus_log[i].event = "panicked"
               => (i = Len(bus_log) /\ bus_status = "panicked")
    /\ bus_status = "err"
         => (bus_devices = <<>> /\ bus_log[Len(bus_log)].event = "failed")
    /\ bus_status = "panicked" => bus_devices = <<>>
    /\ bus_status \in {"building", "ok"}
         => /\ Names(bus_devices) = Names(SelectSeq(bus_log, Constructed))
            /\ \A i \in 1..Len(bus_devices) : bus_devices[i].state = "running"
    /\ bus_status = "ok"
         => /\ Len(bus_log) = Len(bus_config)
            /\ Names(bus_devices) = Names(SelectSeq(bus_config, Recognized))

C16_Witness ==
    /\ bus_status = "err"
    /\ Len(bus_config) = 3
    /\ Names(bus_log) = <<"imu_a", "imu_b">>
    /\ bus_log[1].event = "constructed"
    /\ bus_config[3].driver = "mpu6500"
    /\ Len(chip.writes) > 4

\* q is the integer mean of n values whose sum is sum: the quotient of the
\* division, rounded toward zero
IsIntegerMean(q, sum, n) == IAbs(sum - q * n) < n /\ IAbs(q * n) <= IAbs(sum)

(* C22: calibrate performs exactly 300 six-axis raw reads, sets each offset  *)
(* to the integer mean of its 300 values and then subtracts the configured   *)
(* range's 1 g raw count from the Z accelerometer offset only.               *)
C22_CalibrateMeans ==
    /\ (dhist.op \in {"new", "recalibrate"} /\ dhist.status = "ok")
          => dhist.reads = 300
    /\ dev.state = "running" =>
          /\ IsIntegerMean(dev.calibration.accel_offsets[1], chip.sums[1], 300)
          /\ IsIntegerMean(dev.calibration.accel_offsets[2], chip.sums[2], 300)
          /\ IsIntegerMean(dev.calibration.accel_offsets[3]
                              + AccelRow(dev.settings.accel_range).one_g,
                           chip.sums[3], 300)
          /\ \A i \in 1..3 :
               IsIntegerMean(dev.calibration.gyro_offsets[i], chip.sums[i + 3], 300)

C22_Witness ==
    /\ dhist.op = "new"
    /\ dhist.status = "ok"
    /\ dhist.reads = 300
    /\ chip.signal.jitter = <<1, 1, 1, 1, 1, 1>>
    /\ chip.sums = <<3750, -1950, 614550, 1050, -1350, 450>>
    /\ dev.settings.accel_range = 16
    /\ dev.calibration.accel_offsets = <<12, -6, 0>>
    /\ dev.calibration.gyro_offsets = <<3, -4, 1>>

(* C28: when a raw read fails during calibrate, calibrate returns the error  *)
(* and all six offsets keep the values they had before the call.             *)
C28_FailedCalibrateKeepsOffsets ==
    [][(/\ dhist' # dhist
        /\ dhist'.status = "err"
        /\ \/ dhist'.op = "recalibrate"
           \/ dhist'.op = "new" /\ Len(chip'.writes) = 4)
          => (dev'.calibration = dev.calibration /\ dhist'.reads < 300)]_vars

C28_Witness ==
    /\ dhist.op = "new"
    /\ dhist.status = "err"
    /\ Len(chip.writes) = 4
    /\ dhist.reads = 299
    /\ chip.sums[1] = 3600
    /\ dev.calibration.accel_offsets = <<0, 0, 0>>
    /\ dev.calibration.gyro_offsets = <<0, 0, 0>>

(* C23: bring-up issues its register writes in the order 0x6B <- 0x00,      *)
(* 0x19 <- divider, 0x1C <- accel range byte, 0x1B <- gyro range byte; the   *)
(* first failing write aborts bring-up with an error, no later write is     *)
(* issued, and calibration does not start.                                  *)
C23_BringUpOrder ==
    LET n == Len(chip.writes)
        st == dev.settings
    IN  /\ n <= 4
        /\ n >= 1 => chip.writes[1] = <<107, 0>>
        /\ n >= 2 => chip.writes[2] = <<25, ((1000 \div st.sample_rate) - 1) % 256>>
        /\ n >= 3 => chip.writes[3] = <<28, AccelRow(st.accel_range).cfg>>
        /\ n >= 4 => chip.writes[4] = <<27, GyroRow(st.gyro_range).cfg>>
        /\ (dhist.op = "new" /\ dhist.wfail > 0 /\ dev.state # "panicked")
              => /\ dhist.status = "err"
                 /\ dev.state = "failed"
                 /\ n = dhist.wfail - 1
                 /\ dhist.reads = 0
                 /\ dev.calibration = [accel_offsets |-> <<0, 0, 0>>,
                                       gyro_offsets |-> <<0, 0, 0>>]
        /\ (dhist.reads > 0 \/ dev.state = "running") => n = 4

C23_Witness ==
    /\ dhist.op = "new"
    /\ dhist.wfail = 3
    /\ dhist.status = "err"
    /\ chip.writes = <<<<107, 0>>, <<25, 9>>>>
    /\ dhist.reads = 0

\* the last Sample carries a value under the key
HasKey(key) == key \in Range(Keys(last_read.sample[1]))

(* C24: each read updates two separate accelerometer filter banks: the      *)
(* calibrated raw accelerations are stored under accel_raw_x|y|z, the       *)
(* linear accelerations under accel_x|y|z and mirrored under g_force_x|y|z. *)
C24_TwoFilterBanks ==
    SampleReturned =>
        /\ \A k \in {"accel_raw_x", "accel_raw_y", "accel_raw_z"} : HasKey(k)
        /\ \A k \in {"accel_x", "accel_y", "accel_z"} : HasKey(k)
        /\ HasKey("g_force_x") /\ ValueOf("g_force_x") = ValueOf("accel_x")
        /\ HasKey("g_force_y") /\ ValueOf("g_force_y") = ValueOf("accel_y")
        /\ HasKey("g_force_z") /\ ValueOf("g_force_z") = ValueOf("accel_z")

\* the settings of the descriptor do not parse, or carry a sample rate from
\* which no divider byte can be computed
OutOfRangeSettings ==
    \/ bus_config[1].settings = None
    \/ bus_config[1].settings[1].sample_rate \notin 1..1000

(* C26: constructing a device from settings that fail to parse or whose     *)
(* numeric values are out of range (sample_rate = 0) returns an error: it   *)
(* never panics and never yields a running device.                          *)
C26_ConstructionRejects ==
    (dhist.op = "new" /\ OutOfRangeSettings)
        => (dhist.status = "err" /\ dev.state = "failed")

----------------------------------------------------------------------------
(* Specification of the derived data of one sample *)

AnglesInit ==
    /\ ServiceIdle
    /\ FilterIdle
    /\ ConfigIdle
    /\ DeviceIdle
    /\ BusIdle
    /\ \E ax \in AccelValues, ay \in AccelValues, az \in AccelValues :
         sample = ReadSample(ax, ay, az)
    /\ sent = <<>>

AnglesNext == Mpu6500PublishMqtt

AnglesSpec == AnglesInit /\ [][AnglesNext]_vars

\* the DERIVED payload handed to the MQTT handler, if any
DerivedOfSample == IF Len(sent) = 3 THEN sent[3][2] ELSE <<>>

\* the filtered accelerations of the sample are all exactly zero
ZeroAcceleration ==
    \A i \in 1..3 : sample.values[i][2] = Zero

(* C25: when all three filtered accelerations used for the angles are       *)
(* exactly zero, no lean_angle or bank_angle is emitted; angles are emitted *)
(* only from a non-zero acceleration vector.                                *)
C25_NoAnglesFromZero ==
    ZeroAcceleration =>
        /\ "lean_angle" \notin DOMAIN DerivedOfSample
        /\ "bank_angle" \notin DOMAIN DerivedOfSample

====
